---- MODULE Spec2Model ----
(***************************************************************************)
(* Response-decision pipeline of the Discord bot manager: the bot-to-bot   *)
(* loop guard and the response policy of eventHandler.ts (shouldRespond,   *)
(* handleMessageCreate) and the control flow of processConversation in     *)
(* responseOrchestrator.ts.                                                *)
(*                                                                         *)
(* One bot instance (client.user.id = BotId) is modelled.  A message event *)
(* carries the object graph the handler reads: author, type, mentions,     *)
(* content and the channel object with its kind, the permissions the       *)
(* platform reports for the bot, and the thread membership flags.          *)
(* Every awaited platform or endpoint call is a step whose outcome the     *)
(* environment chooses (it returns or it throws).                          *)
(*                                                                         *)
(* The layers processConversation calls are modelled step by step beside   *)
(* it: the conversation cache (ephemeralFetchConversation,                 *)
(* fetchConversationFromDiscord) with interleaved handlers of several bot  *)
(* instances, the display-name cache (getDisplayName), and the inference   *)
(* client of llmAPI.ts (callLLM, parseLLMResponse).                        *)
(***************************************************************************)
EXTENDS Integers, Sequences, FiniteSets, TLC

VARIABLES
    botConfig,        \* client.botConfig: respondTo, respondAsReply
    now,              \* Date.now()
    botToBotChains,   \* Map channel id -> BotConversationChain
    msg,              \* the message event being handled (or NoMessage)
    pc,               \* position of the handler of msg
    respond,          \* what shouldRespond returned for msg
    respondAsReply,   \* the flag handleMessageCreate passes on
    nameSeen,         \* what getDisplayName returned inside shouldRespond
    fx,               \* platform/endpoint calls issued while handling msg
    delivered,        \* how the model reply of msg reached the channel
    typingInterval,   \* the setInterval timer started while handling msg is live
    run,              \* history: other-bot authors the guard saw per channel
    humanSince,       \* history: a human posted after the last counted bot message
    gap,              \* history: ms since the previous counted bot message (-1: none)
    streak,           \* history: consecutive replies delivered to one other bot
    channelCache,     \* Map channel id -> CacheEntry (module level, one per process)
    channelLog,       \* platform: the messages of each channel, oldest first
    channelTopic,     \* platform: channel.topic of each channel
    convLength,       \* botConfig.convLength of each bot instance
    calls,            \* the processConversation invocations, one per message event
    storedBy,         \* history: the invocation whose fetch filled the entry of a channel
    displayNameCache, \* Map cache key -> DisplayNameCacheEntry (module level)
    memberNames,      \* platform: the name a lookup of each key resolves to
    lookups,          \* the getDisplayName invocations
    llm,              \* one callLLM invocation: arguments, request, response, outcome
    aiResult,         \* the type of what callLLM gave processConversation for msg
    outbox,           \* the messages processConversation tried to post for msg, in order
    userMessage,      \* the message processConversation answers while handling msg
    reactions,        \* the handleReactionAdd invocations
    reacted,          \* the emoji this bot has put on its message (reactions cache)
    deleted,          \* message.delete() was issued for the bot's message
    _client,          \* botManager.ts: the module-level client reference
    ready,            \* the bot instances whose "ready" handler has run
    reads,            \* history: the getBotClient() results, per handled event
    session,          \* one construction of a session id and its decoding
    mention,          \* one mention substitution and its repetition
    prune             \* one store into a cache that is about as full as the pruning threshold

\* the variables of the event handler
handlerVars == <<botConfig, botToBotChains, msg, pc, respond, respondAsReply,
                 nameSeen, fx, delivered, typingInterval, run, humanSince, gap, streak,
                 aiResult, outbox, userMessage>>

\* what processConversation keeps about the event it handles
eventVars == <<aiResult, outbox, userMessage>>

\* the variables of the conversation cache
cacheVars == <<channelCache, channelLog, channelTopic, convLength, calls, storedBy>>

\* the variables of the display-name cache
nameVars == <<displayNameCache, memberNames, lookups>>

\* the variable of the inference client
llmVars == <<llm>>

\* the variables of the reaction handler
reactionVars == <<reactions, reacted, deleted>>

\* the variables of botManager.ts
managerVars == <<_client, ready, reads>>

\* the session id and the mention substitution
textVars == <<session, mention, prune>>

restVars == <<reactionVars, managerVars, textVars>>

layerVars == <<cacheVars, nameVars, llmVars, restVars>>

vars == <<botConfig, now, botToBotChains, msg, pc, respond, respondAsReply,
          nameSeen, fx, delivered, typingInterval, run, humanSince, gap, streak,
          channelCache, channelLog, channelTopic, convLength, calls, storedBy,
          displayNameCache, memberNames, lookups, llm,
          aiResult, outbox, userMessage, reactions, reacted, deleted,
          _client, ready, reads, session, mention, prune>>

----------------------------------------------------------------------------
\* Identities and value spaces

BotId == "self"
OtherBots == {"botA", "botB"}
Humans == {"alice"}

SelfAuthor == [id |-> BotId, bot |-> TRUE]
BotAuthors == {[id |-> b, bot |-> TRUE] : b \in OtherBots}
HumanAuthors == {[id |-> h, bot |-> FALSE] : h \in Humans}

\* loop guard constants of shouldRespond
IdleMs == 600000
ChainThreshold == 3

\* bounds of the model
MaxRun == 5
MaxStreak == 5
MaxElapsedHalves == 3
StartTime == 1000000

PermissionFlagsBits ==
    {"ViewChannel", "SendMessages", "ReadMessageHistory", "SendMessagesInThreads"}

\* the array `required` of shouldRespond
required == {"ViewChannel", "SendMessages", "ReadMessageHistory"}


----------------------------------------------------------------------------
\* Strings are sequences of one-character strings

Lower(ch) ==
    CASE ch = "B" -> "b"
      [] ch = "O" -> "o"
      [] OTHER -> ch

toLowerCase(s) == [i \in 1..Len(s) |-> Lower(s[i])]

includes(hay, needle) ==
    \E i \in 1..(Len(hay) - Len(needle) + 1) :
        SubSeq(hay, i, i + Len(needle) - 1) = needle

----------------------------------------------------------------------------
\* Channel object

isDMBased(channel) == channel.kind = "DM"

isThread(channel) == channel.kind = "Thread"

\* ThreadChannel.sendable of the client library: the thread is not locked away
\* and the bot holds SendMessagesInThreads
sendable(channel) ==
    /\ ~channel.locked
    /\ channel.hasPerms
    /\ "SendMessagesInThreads" \in channel.perms

\* channel.isSendable(): the channel object has a send method
isSendable(channel) == channel.kind \in {"GuildText", "DM", "Thread"}

----------------------------------------------------------------------------
\* Bot-to-bot loop guard (shouldRespond, "Protect against bot loops")

\* the ?? default of botToBotChains.get(channel.id)
NewChain == [chainCount |-> 0, lastBotId |-> "", lastActivity |-> 0]

MapGet(map, key, default) == IF key \in DOMAIN map THEN map[key] ELSE default

MapSet(map, key, value) ==
    [k \in DOMAIN map \cup {key} |-> IF k = key THEN value ELSE map[k]]

EmptyMap == [k \in {} |-> NewChain]

\* faulty variant: the idle test with >= for >
idleExpired_inclusive(chain, t) == t - chain.lastActivity >= IdleMs

\* if (now - chain.lastActivity > 600_000)
idleExpired(chain, t) == t - chain.lastActivity > IdleMs

\* faulty variant: counts a bot that posts again, not a change of author
chainAfter_sameAuthor(chain, authorId, t) ==
    LET c1 == IF t - chain.lastActivity > IdleMs
              THEN [chain EXCEPT !.chainCount = 0, !.lastBotId = ""]
              ELSE chain
        c2 == IF c1.lastBotId # "" /\ c1.lastBotId = authorId
              THEN [c1 EXCEPT !.chainCount = @ + 1]
              ELSE c1
    IN  [c2 EXCEPT !.lastBotId = authorId, !.lastActivity = t]

\* faulty variant: counts every bot message that follows another one
chainAfter_everyBot(chain, authorId, t) ==
    LET c1 == IF t - chain.lastActivity > IdleMs
              THEN [chain EXCEPT !.chainCount = 0, !.lastBotId = ""]
              ELSE chain
        c2 == IF c1.lastBotId # ""
              THEN [c1 EXCEPT !.chainCount = @ + 1]
              ELSE c1
    IN  [c2 EXCEPT !.lastBotId = authorId, !.lastActivity = t]

\* the chain as botToBotChains.set stores it for a message of authorId at t
chainAfter(chain, authorId, t) ==
    LET c1 == IF idleExpired(chain, t)
              THEN [chain EXCEPT !.chainCount = 0, !.lastBotId = ""]
              ELSE chain
        c2 == IF c1.lastBotId # "" /\ c1.lastBotId # authorId
              THEN [c1 EXCEPT !.chainCount = @ + 1]
              ELSE c1
    IN  [c2 EXCEPT !.lastBotId = authorId, !.lastActivity = t]

\* if (chain.chainCount >= 3) return false
loopSuppressed(chain) == chain.chainCount >= ChainThreshold

\* faulty variant: a human message deletes the chain entry of its channel
loopGuard_humanResets(message, chains, t) ==
    IF ~message.author.bot
    THEN [stop |-> FALSE,
          chains |-> [k \in DOMAIN chains \ {message.channel.id} |-> chains[k]]]
    ELSE IF message.author.id = BotId
    THEN [stop |-> TRUE, chains |-> chains]
    ELSE LET chain == (LET c0 == MapGet(chains, message.channel.id, NewChain)
                           c1 == IF t - c0.lastActivity > IdleMs
                                 THEN [c0 EXCEPT !.chainCount = 0, !.lastBotId = ""]
                                 ELSE c0
                           c2 == IF c1.lastBotId # "" /\ c1.lastBotId # message.author.id
                                 THEN [c1 EXCEPT !.chainCount = @ + 1]
                                 ELSE c1
                       IN  [c2 EXCEPT !.lastBotId = message.author.id,
                                      !.lastActivity = t])
         IN  [stop |-> chain.chainCount >= ChainThreshold,
              chains |-> MapSet(chains, message.channel.id, chain)]

\* faulty variant: the bot's own messages are counted like another bot's
loopGuard_selfCounted(message, chains, t) ==
    IF ~message.author.bot
    THEN [stop |-> FALSE, chains |-> chains]
    ELSE LET chain == (LET c0 == MapGet(chains, message.channel.id, NewChain)
                           c1 == IF t - c0.lastActivity > IdleMs
                                 THEN [c0 EXCEPT !.chainCount = 0, !.lastBotId = ""]
                                 ELSE c0
                           c2 == IF c1.lastBotId # "" /\ c1.lastBotId # message.author.id
                                 THEN [c1 EXCEPT !.chainCount = @ + 1]
                                 ELSE c1
                       IN  [c2 EXCEPT !.lastBotId = message.author.id,
                                      !.lastActivity = t])
         IN  [stop |-> message.author.id = BotId \/ chain.chainCount >= ChainThreshold,
              chains |-> MapSet(chains, message.channel.id, chain)]

\* faulty variant: the threshold test is made for every author
loopGuard_allAuthors(message, chains, t) ==
    IF ~message.author.bot
    THEN [stop |-> MapGet(chains, message.channel.id, NewChain).chainCount
                      >= ChainThreshold,
          chains |-> chains]
    ELSE IF message.author.id = BotId
    THEN [stop |-> TRUE, chains |-> chains]
    ELSE LET chain == (LET c0 == MapGet(chains, message.channel.id, NewChain)
                           c1 == IF t - c0.lastActivity > IdleMs
                                 THEN [c0 EXCEPT !.chainCount = 0, !.lastBotId = ""]
                                 ELSE c0
                           c2 == IF c1.lastBotId # "" /\ c1.lastBotId # message.author.id
                                 THEN [c1 EXCEPT !.chainCount = @ + 1]
                                 ELSE c1
                       IN  [c2 EXCEPT !.lastBotId = message.author.id,
                                      !.lastActivity = t])
         IN  [stop |-> chain.chainCount >= ChainThreshold,
              chains |-> MapSet(chains, message.channel.id, chain)]

\* the whole guard block: what it leaves in the map, and whether it returns false
loopGuard(message, chains, t) ==
    IF ~message.author.bot
    THEN [stop |-> FALSE, chains |-> chains]
    ELSE IF message.author.id = BotId
    THEN [stop |-> TRUE, chains |-> chains]
    ELSE LET chain == chainAfter(MapGet(chains, message.channel.id, NewChain),
                                 message.author.id, t)
         IN  [stop |-> loopSuppressed(chain),
              chains |-> MapSet(chains, message.channel.id, chain)]

----------------------------------------------------------------------------
\* Response policy (shouldRespond after the loop guard)

\* if (message.type !== Default && message.type !== Reply) return false
isStandardType(message) == message.type \in {"Default", "Reply"}

\* faulty variant: one of the required permissions is enough
permissionDenied_anyOne(message) ==
    /\ ~isDMBased(message.channel)
    /\ \/ ~message.channel.hasPerms
       \/ required \cap message.channel.perms = {}

\* Check channel permissions, where appropriate
permissionDenied(message) ==
    /\ ~isDMBased(message.channel)
    /\ \/ ~message.channel.hasPerms
       \/ ~(required \subseteq message.channel.perms)

hasAnyMention(message) ==
    \/ message.mentions.everyone
    \/ message.mentions.users # {}
    \/ message.mentions.roles # {}
    \/ message.mentions.channels # {}

isBotMentioned(message) == BotId \in message.mentions.users

\* if (hasAnyMention && !isBotMentioned) return false
mentionsOthersOnly(message) == hasAnyMention(message) /\ ~isBotMentioned(message)

\* faulty variant: membership alone decides
threadRule_memberOnly(message) == message.channel.joined

\* if (channel.sendable && channel.joined) return true; return false
threadRule(message) == sendable(message.channel) /\ message.channel.joined

\* faulty variant: a DM is answered only under the rules of a guild channel
alwaysRespond_guildOnly(message, config) ==
    \/ config.respondTo = "dynamic"
    \/ isBotMentioned(message)

\* Always-respond when: dynamic, DM, mentioned
alwaysRespond(message, config) ==
    \/ config.respondTo = "dynamic"
    \/ isDMBased(message.channel)
    \/ isBotMentioned(message)

\* faulty variant: the name is looked for whatever respondTo is
nameRuleApplies_always(config) == TRUE

\* the name rule is reached and getDisplayName is awaited
nameRuleApplies(config) == config.respondTo = "name"

\* message.content.toLowerCase().includes(displayName.toLowerCase())
nameRule(message, displayName) ==
    includes(toLowerCase(message.content), toLowerCase(displayName))

NotCalled == [called |-> FALSE, ok |-> FALSE, name |-> <<>>]

\* faulty variant: dynamic, DM and thread are decided before the mention rule
policy_dynamicFirst(message, config, lookup) ==
    IF config.respondTo = "dynamic" \/ isDMBased(message.channel)
    THEN [result |-> "true", nameSeen |-> NotCalled]
    ELSE IF isThread(message.channel)
    THEN [result |-> IF sendable(message.channel) /\ message.channel.joined
                     THEN "true" ELSE "false",
          nameSeen |-> NotCalled]
    ELSE IF hasAnyMention(message) /\ ~isBotMentioned(message)
    THEN [result |-> "false", nameSeen |-> NotCalled]
    ELSE IF isBotMentioned(message)
    THEN [result |-> "true", nameSeen |-> NotCalled]
    ELSE IF config.respondTo = "name"
    THEN IF ~lookup.ok
         THEN [result |-> "throw", nameSeen |-> lookup]
         ELSE [result |-> IF includes(toLowerCase(message.content),
                                      toLowerCase(lookup.name))
                          THEN "true" ELSE "false",
               nameSeen |-> lookup]
    ELSE [result |-> "false", nameSeen |-> NotCalled]

\* the rules after the permission check, in the order of the code
policy(message, config, lookup) ==
    IF mentionsOthersOnly(message)
    THEN [result |-> "false", nameSeen |-> NotCalled]
    ELSE IF isThread(message.channel)
    THEN [result |-> IF threadRule(message) THEN "true" ELSE "false",
          nameSeen |-> NotCalled]
    ELSE IF alwaysRespond(message, config)
    THEN [result |-> "true", nameSeen |-> NotCalled]
    ELSE IF nameRuleApplies(config)
    THEN IF ~lookup.ok
         THEN [result |-> "throw", nameSeen |-> lookup]
         ELSE [result |-> IF nameRule(message, lookup.name) THEN "true" ELSE "false",
               nameSeen |-> lookup]
    ELSE [result |-> "false", nameSeen |-> NotCalled]

\* shouldRespond(message): result "true"/"false", or "throw" when the awaited
\* getDisplayName rejects; chains is botToBotChains as the call leaves it
shouldRespond(message, config, chains, t, lookup) ==
    IF ~isStandardType(message)
    THEN [result |-> "false", chains |-> chains, nameSeen |-> NotCalled]
    ELSE LET g == loopGuard(message, chains, t)
         IN  IF g.stop \/ permissionDenied(message)
             THEN [result |-> "false", chains |-> g.chains, nameSeen |-> NotCalled]
             ELSE LET p == policy(message, config, lookup)
                  IN  [result |-> p.result, chains |-> g.chains,
                       nameSeen |-> p.nameSeen]

\* faulty variant: every response in a DM or a thread is a reply
replyFlag_dmThread(message, config) ==
    \/ isBotMentioned(message)
    \/ config.respondAsReply
    \/ isDMBased(message.channel)
    \/ isThread(message.channel)

\* const respondAsReply = ... of handleMessageCreate
replyFlag(message, config) ==
    \/ isBotMentioned(message)
    \/ /\ config.respondAsReply
       /\ ~(isDMBased(message.channel) \/ isThread(message.channel))

----------------------------------------------------------------------------
\* Inputs: the message events the platform can emit

AllPerms == PermissionFlagsBits

\* what channel.permissionsFor(client.user) can report: null, or a set of flags
PermInputs ==
    {[hasPerms |-> FALSE, perms |-> {}]}
    \cup {[hasPerms |-> TRUE, perms |-> P] :
            P \in {AllPerms, {}} \cup {AllPerms \ {f} : f \in PermissionFlagsBits}}

GuildChannels(ids) ==
    {[id |-> c, kind |-> "GuildText", hasPerms |-> p.hasPerms, perms |-> p.perms,
      joined |-> FALSE, locked |-> FALSE] : c \in ids, p \in PermInputs}

DMChannels ==
    {[id |-> "dm", kind |-> "DM", hasPerms |-> FALSE, perms |-> {},
      joined |-> FALSE, locked |-> FALSE]}

ThreadChannels ==
    {[id |-> "thread", kind |-> "Thread", hasPerms |-> p.hasPerms, perms |-> p.perms,
      joined |-> j, locked |-> l] : p \in PermInputs, j \in BOOLEAN, l \in BOOLEAN}

MentionInputs ==
    {[everyone |-> e, users |-> u, roles |-> r, channels |-> {}] :
        e \in BOOLEAN, u \in SUBSET {BotId, "alice"}, r \in SUBSET {"mods"}}
    \cup {[everyone |-> FALSE, users |-> u, roles |-> {}, channels |-> {"rules"}] :
        u \in {{}, {BotId}}}

NoMentions == [everyone |-> FALSE, users |-> {}, roles |-> {}, channels |-> {}]

BotMention == [everyone |-> FALSE, users |-> {BotId}, roles |-> {}, channels |-> {}]

\* message texts; the bot's display name is "Bo"
Contents == {<<"h", "i">>, <<"a", "B", "O">>, <<"b">>}

DisplayNames == {<<"B", "o">>}

\* what the awaited getDisplayName(botId, guildId) can do: return a name or reject
Lookups ==
    {[called |-> TRUE, ok |-> TRUE, name |-> n] : n \in DisplayNames}
    \cup {[called |-> TRUE, ok |-> FALSE, name |-> <<>>]}

MessageTypes == {"Default", "Reply", "UserJoin"}

NoMessage ==
    [author |-> [id |-> "", bot |-> FALSE], type |-> "none",
     channel |-> [id |-> "", kind |-> "none", hasPerms |-> FALSE, perms |-> {},
                  joined |-> FALSE, locked |-> FALSE],
     mentions |-> NoMentions, content |-> <<>>]

\* events of the policy specification: every combination the rules distinguish
PolicyMessages ==
    {[author |-> a, type |-> ty, channel |-> ch, mentions |-> mn, content |-> tx] :
        a \in {SelfAuthor, [id |-> "botA", bot |-> TRUE], [id |-> "alice", bot |-> FALSE]},
        ty \in MessageTypes,
        ch \in GuildChannels({"general"}) \cup DMChannels \cup ThreadChannels,
        mn \in MentionInputs,
        tx \in Contents}

PolicyConfigs ==
    {[respondTo |-> r, respondAsReply |-> b] :
        r \in {"unset", "name", "dynamic"}, b \in BOOLEAN}

\* events of the loop-guard specification: every author, in a channel the bot may use
GuardChannelIds == {"general"}

GuardChannel(c) ==
    [id |-> c, kind |-> "GuildText", hasPerms |-> TRUE, perms |-> AllPerms,
     joined |-> FALSE, locked |-> FALSE]

GuardMessages ==
    {[author |-> a, type |-> "Default", channel |-> GuardChannel(c),
      mentions |-> mn, content |-> <<"h", "i">>] :
        a \in {SelfAuthor} \cup BotAuthors \cup HumanAuthors,
        c \in GuardChannelIds,
        mn \in {NoMentions, BotMention}}
    \cup {[author |-> a, type |-> "UserJoin", channel |-> GuardChannel(c),
           mentions |-> NoMentions, content |-> <<>>] :
        a \in {[id |-> "botA", bot |-> TRUE]}, c \in GuardChannelIds}

GuardConfigs ==
    {[respondTo |-> r, respondAsReply |-> FALSE] : r \in {"unset", "dynamic"}}

ChannelIds == GuardChannelIds \cup {"dm", "thread"}

NoStreak == [who |-> "", channel |-> "", n |-> 0]

----------------------------------------------------------------------------
\* History kept beside the program state

\* msg is a standard message of another bot: the guard counts it
guarded(m) == isStandardType(m) /\ m.author.bot /\ m.author.id # BotId

\* the guard starts afresh for channel c: no entry yet, or idle for more than 10 minutes
freshStart(c) ==
    \/ c \notin DOMAIN botToBotChains
    \/ now - MapGet(botToBotChains, c, NewChain).lastActivity > 600000

\* a gap of 10 minutes or more since the last counted bot message of channel c
gapReached(c) ==
    \/ c \notin DOMAIN botToBotChains
    \/ now - MapGet(botToBotChains, c, NewChain).lastActivity >= 600000

\* no user message resolved yet
NoUserMessage == [id |-> "", resolved |-> FALSE, reference |-> "none", preceding |-> "none"]

\* userMessage = message
TriggerItself == [id |-> "trigger", resolved |-> TRUE, reference |-> "none", preceding |-> "none"]

Finished == pc \in {"returned", "rejected"}

----------------------------------------------------------------------------
\* Environment

\* client.on("messageCreate", handleMessageCreate): the platform emits event m
messageCreate(m) ==
    /\ pc = "idle"
    /\ IF guarded(m) /\ ~freshStart(m.channel.id)
       THEN Len(run[m.channel.id]) < MaxRun
       ELSE TRUE
    /\ msg' = m
    /\ pc' = "received"
    /\ UNCHANGED <<botConfig, now, botToBotChains, respond, respondAsReply, nameSeen,
                   fx, delivered, typingInterval, run, humanSince, gap, streak>>
    /\ UNCHANGED eventVars
    /\ UNCHANGED layerVars

\* the promise of handleMessageCreate has settled (fulfilled or rejected): the
\* event is done with and the event loop goes on; the registers that describe
\* the handling of msg are given over to the next event
settle ==
    /\ Finished
    /\ \A i \in DOMAIN reactions : reactions[i].pc # "processConversation"
    /\ msg' = NoMessage
    /\ pc' = "idle"
    /\ respond' = "none"
    /\ respondAsReply' = FALSE
    /\ nameSeen' = NotCalled
    /\ fx' = {}
    /\ delivered' = "none"
    /\ typingInterval' = FALSE
    /\ gap' = -1
    /\ aiResult' = "none"
    /\ outbox' = <<>>
    /\ userMessage' = NoUserMessage
    /\ UNCHANGED <<botConfig, now, botToBotChains, run, humanSince, streak>>
    /\ UNCHANGED layerVars

\* time passes between events
Tick(d) ==
    /\ pc = "idle"
    /\ now + d - StartTime <= MaxElapsedHalves * (IdleMs \div 2) + 2
    /\ now' = now + d
    /\ UNCHANGED <<botConfig, botToBotChains, msg, pc, respond, respondAsReply,
                   nameSeen, fx, delivered, typingInterval, run, humanSince, gap, streak>>
    /\ UNCHANGED eventVars
    /\ UNCHANGED layerVars

Deltas == {IdleMs \div 2, IdleMs + 1}

----------------------------------------------------------------------------
\* handleMessageCreate: shouldRespond, the reply flag, and the entry of
\* processConversation up to its first await

handleMessageCreate ==
    /\ pc = "received"
    /\ \E lookup \in Lookups :
          LET r == shouldRespond(msg, botConfig, botToBotChains, now, lookup)
          IN  /\ botToBotChains' = r.chains
              /\ respond' = r.result
              /\ nameSeen' = r.nameSeen
              /\ respondAsReply' = IF r.result = "true"
                                   THEN replyFlag(msg, botConfig)
                                   ELSE FALSE
              /\ pc' = CASE r.result = "throw" -> "rejected"
                         [] r.result = "false" -> "returned"
                         [] OTHER -> IF isSendable(msg.channel)
                                     THEN "ephemeralFetchConversation"
                                     ELSE "returned"
    /\ LET c == msg.channel.id
       IN  /\ run' = IF guarded(msg)
                     THEN [run EXCEPT ![c] = IF freshStart(c)
                                             THEN <<msg.author.id>>
                                             ELSE Append(@, msg.author.id)]
                     ELSE run
           /\ humanSince' =
                 IF guarded(msg)
                 THEN [humanSince EXCEPT ![c] = IF @ = "posted" THEN "between" ELSE "no"]
                 ELSE IF ~msg.author.bot /\ isStandardType(msg)
                         /\ c \in DOMAIN botToBotChains
                 THEN [humanSince EXCEPT ![c] = "posted"]
                 ELSE humanSince
           /\ gap' = IF guarded(msg) /\ c \in DOMAIN botToBotChains
                     THEN now - MapGet(botToBotChains, c, NewChain).lastActivity
                     ELSE -1
           /\ streak' = IF ~msg.author.bot THEN NoStreak
                        ELSE IF guarded(msg)
                                /\ (gapReached(c) \/ streak.who # msg.author.id
                                    \/ streak.channel # c)
                        THEN [who |-> msg.author.id, channel |-> c, n |-> 0]
                        ELSE streak
    /\ UNCHANGED <<botConfig, now, msg, fx, delivered, typingInterval>>
    /\ UNCHANGED eventVars
    /\ UNCHANGED layerVars

----------------------------------------------------------------------------
\* processConversation, one step per awaited call

\* await ephemeralFetchConversation(message, botConfig.convLength, 5000)
ephemeralFetchConversation ==
    /\ pc = "ephemeralFetchConversation"
    /\ fx' = fx \cup {"context"}
    /\ \E ok \in BOOLEAN : pc' = IF ok THEN "sendTyping" ELSE "rejected"
    /\ UNCHANGED <<botConfig, now, botToBotChains, msg, respond, respondAsReply,
                   nameSeen, delivered, typingInterval, run, humanSince, gap, streak>>
    /\ UNCHANGED eventVars
    /\ UNCHANGED layerVars

\* await channel.sendTyping(); setInterval(...); and for a trigger that this
\* bot did not write: userMessage = message
sendTyping ==
    /\ pc = "sendTyping"
    /\ fx' = fx \cup {"typing"}
    /\ \E ok \in BOOLEAN :
          /\ pc' = IF ~ok THEN "rejected"
                   ELSE IF msg.author.id # BotId THEN "getDisplayName"
                   ELSE "resolveUserMessage"
          /\ typingInterval' = ok
          /\ userMessage' = IF ok /\ msg.author.id # BotId
                            THEN TriggerItself
                            ELSE userMessage
    /\ UNCHANGED <<aiResult, outbox>>
    /\ UNCHANGED <<botConfig, now, botToBotChains, msg, respond, respondAsReply,
                   nameSeen, delivered, run, humanSince, gap, streak>>
    /\ UNCHANGED layerVars

\* what the platform holds for a trigger this bot wrote: the message it replies
\* to is in the cache, can be fetched, cannot be fetched, or there is no
\* reference; the message before the trigger is found, does not exist, or the
\* fetch fails
References == {"none", "cached", "fetched", "missing"}
Precedings == {"found", "none", "error"}

\* faulty variant of resolveUser: the preceding message is taken first
resolveUser_precedingFirst(reference, preceding) ==
    [id |-> IF preceding = "found" THEN "preceding"
            ELSE IF reference \in {"cached", "fetched"} THEN "referenced"
            ELSE "",
     resolved |-> TRUE, reference |-> reference, preceding |-> preceding]

\* the user message of a trigger this bot wrote: the referenced message from
\* the cache or from fetchReference(), else the first of
\* messages.fetch({before: message.id, limit: 1}), else none
resolveUser(reference, preceding) ==
    [id |-> IF reference \in {"cached", "fetched"} THEN "referenced"
            ELSE IF preceding = "found" THEN "preceding"
            ELSE "",
     resolved |-> TRUE, reference |-> reference, preceding |-> preceding]

\* the else branch of "if (message.author.id !== botId)": the try block that
\* looks for the user message, and the catch block that returns
resolveUserMessage ==
    /\ pc = "resolveUserMessage"
    /\ \E reference \in References, preceding \in Precedings :
          /\ userMessage' = resolveUser(reference, preceding)
          /\ pc' = IF userMessage'.id = "" THEN "returned" ELSE "getDisplayName"
    /\ UNCHANGED <<botConfig, now, botToBotChains, msg, respond, respondAsReply,
                   nameSeen, fx, delivered, typingInterval, run, humanSince, gap, streak,
                   aiResult, outbox>>
    /\ UNCHANGED layerVars

\* botName: await getDisplayName(botId, message.guildId); the session id
getDisplayName ==
    /\ pc = "getDisplayName"
    /\ \E ok \in BOOLEAN : pc' = IF ok THEN "callLLM" ELSE "rejected"
    /\ UNCHANGED <<botConfig, now, botToBotChains, msg, respond, respondAsReply,
                   nameSeen, fx, delivered, typingInterval, run, humanSince, gap, streak>>
    /\ UNCHANGED eventVars
    /\ UNCHANGED layerVars

LLMOutcomes == {"success", "rate_limited", "throw"}

\* faulty variant of afterCallLLM: a rate-limited result is delivered like a reply
afterCallLLM_noEarlyReturn(out) ==
    CASE out = "success" -> "deliver"
      [] out = "rate_limited" -> "deliver"
      [] OTHER -> "rejected"

\* where processConversation goes on after the awaited callLLM: a throw leaves
\* the function (the call is outside the try block), rate_limited returns
afterCallLLM(out) ==
    CASE out = "success" -> "deliver"
      [] out = "rate_limited" -> "returned"
      [] OTHER -> "rejected"

\* aiResult.reply, and the text of the catch block
ModelReply == "aiResult.reply"
Apology == "Beep boop, something went wrong. Please contact the owner."

\* faulty variant of post: the text is always posted as a reply
post_alwaysReply(asReply, target, text, ok) ==
    [call |-> "reply", to |-> target.id, text |-> text, ok |-> ok]

\* one call that posts a message: userMessage.reply(text) or channel.send(text)
post(asReply, target, text, ok) ==
    [call |-> IF asReply THEN "reply" ELSE "send",
     to |-> IF asReply THEN target.id ELSE "",
     text |-> text, ok |-> ok]

\* where processConversation goes on after the reply of the catch block: its
\* rejection is not caught, it leaves the function once finally has run
afterFallback(ok) == IF ok THEN "returned" ELSE "rejected"

\* const aiResult = await callLLM(...); if (aiResult.type === "rate_limited") return
callLLM ==
    /\ pc = "callLLM"
    /\ fx' = fx \cup {"infer"}
    /\ \E out \in LLMOutcomes :
          /\ aiResult' = out
          /\ pc' = afterCallLLM(out)
    /\ UNCHANGED <<outbox, userMessage>>
    /\ UNCHANGED <<botConfig, now, botToBotChains, msg, respond, respondAsReply,
                   nameSeen, delivered, typingInterval, run, humanSince, gap, streak>>
    /\ UNCHANGED layerVars

\* try { respondAsReply ? userMessage.reply(reply) : channel.send(reply) }
\* on success the finally block clears the timer
deliver ==
    /\ pc = "deliver"
    /\ fx' = fx \cup {IF respondAsReply THEN "reply" ELSE "send"}
    /\ \E ok \in BOOLEAN :
          /\ outbox' = Append(outbox, post(respondAsReply, userMessage, ModelReply, ok))
          /\ IF ok
             THEN /\ pc' = "returned"
                  /\ delivered' = IF respondAsReply THEN "reply" ELSE "send"
                  /\ typingInterval' = FALSE
                  /\ streak' = IF msg.author.bot
                               THEN [streak EXCEPT !.n = IF @ < MaxStreak THEN @ + 1 ELSE @]
                               ELSE streak
             ELSE /\ pc' = "fallback"
                  /\ UNCHANGED <<delivered, typingInterval, streak>>
    /\ UNCHANGED <<aiResult, userMessage>>
    /\ UNCHANGED <<botConfig, now, botToBotChains, msg, respond, respondAsReply,
                   nameSeen, run, humanSince, gap>>
    /\ UNCHANGED layerVars

\* catch { await userMessage.reply("Beep boop, ...") } finally { clearInterval }
fallback ==
    /\ pc = "fallback"
    /\ fx' = fx \cup {"fallback"}
    /\ \E ok \in BOOLEAN :
          /\ outbox' = Append(outbox, post(TRUE, userMessage, Apology, ok))
          /\ pc' = afterFallback(ok)
    /\ typingInterval' = FALSE
    /\ UNCHANGED <<aiResult, userMessage>>
    /\ UNCHANGED <<botConfig, now, botToBotChains, msg, respond, respondAsReply,
                   nameSeen, delivered, run, humanSince, gap, streak>>
    /\ UNCHANGED layerVars

----------------------------------------------------------------------------
\* Conversation cache: ephemeralFetchConversation and fetchConversationFromDiscord
\* of responseOrchestrator.ts, and the request body callLLM builds from the
\* conversation it is given

\* cacheDurationMs, as processConversation passes it
CacheDurationMs == 5000

\* if (channelCache.size > 1000)
PruneThreshold == 1000

\* bounds of the cache specification
MaxEvents == 2
MaxCacheTicks == 2

\* the bot instances of the process; both import the one orchestrator module
BotInstances == {BotId, "bot2"}

CacheChannelIds == {"general", "dm"}

CacheChannel(c) == [id |-> c, kind |-> IF c = "dm" THEN "DM" ELSE "GuildText"]

\* the bot instances that receive the events of channel c
Recipients(c) == IF c = "dm" THEN {BotId} ELSE BotInstances

ConvLengths == {0, 2}

\* texts: of message n, and of a channel topic
MessageText(n) == [of |-> "message", n |-> n]
TopicText == [of |-> "topic", n |-> 0]
NoTopic == [of |-> "none", n |-> 0]

\* a DM channel has no topic property; the topic of a guild channel may be unset
hasTopic(channel, topic) == channel.kind = "GuildText" /\ topic # NoTopic

\* the message event n that alice posts in channel c
UserMessage(n, c) ==
    [id |-> n, author |-> [id |-> "alice", bot |-> FALSE],
     channel |-> CacheChannel(c), content |-> MessageText(n)]

NoEntry == [lastFetchTime |-> 0, messages |-> <<>>]

NoBody == [keys |-> {}, message |-> NoTopic, conversation |-> <<>>]

\* the n-th event is a thumbs-down on a message that bot b wrote in channel c:
\* processConversation(message, true) with that message as the trigger
BotMessageIn(n, c, b) ==
    [id |-> n, author |-> [id |-> b, bot |-> TRUE],
     channel |-> CacheChannel(c), content |-> MessageText(n)]

NoCall ==
    [pc |-> "none", bot |-> "", channel |-> "", t0 |-> 0, fetched |-> FALSE,
     from |-> 0, snapshot |-> <<>>, conversation |-> <<>>, body |-> NoBody,
     regenerate |-> FALSE, callLLM |-> FALSE]

\* the message processConversation is called with in a call
TriggerOf(call, n) ==
    IF call.regenerate
    THEN BotMessageIn(n, call.channel, call.bot)
    ELSE UserMessage(n, call.channel)

\* the last k elements of sequence s
lastN(s, k) == IF Len(s) <= k THEN s ELSE SubSeq(s, Len(s) - k + 1, Len(s))

\* channel.messages.fetch({ limit, before }), sorted oldest first
messagesFetch(log, limit, before) ==
    lastN(SelectSeq(log, LAMBDA m : m.id < before), limit)

\* fetchConversationFromDiscord(message, limit) for the bot botId, reading the
\* channel as the platform holds it: earlier messages, the triggering message
\* unless the bot wrote it, the topic first
fetchConversationFromDiscord(message, limit, botId, log, topic) ==
    LET fetched == IF limit # 0 THEN messagesFetch(log, limit, message.id) ELSE <<>>
        sorted == IF message.author.id # botId THEN Append(fetched, message) ELSE fetched
        messages == [i \in 1..Len(sorted) |->
                        [username |-> sorted[i].author.id, text |-> sorted[i].content]]
    IN  IF hasTopic(message.channel, topic)
        THEN <<[username |-> "Channel Topic", text |-> topic]>> \o messages
        ELSE messages

\* faulty variant: one entry per channel and limit
cacheKey_withLimit(message, limit) == <<message.channel.id, limit>>

\* const cacheKey = channel.id
cacheKey(message, limit) == message.channel.id

\* faulty variant: an entry is served up to and including the cache duration
cacheFresh_inclusive(cached, t) == t - cached.lastFetchTime <= CacheDurationMs

\* now - cached.lastFetchTime < cacheDurationMs
cacheFresh(cached, t) == t - cached.lastFetchTime < CacheDurationMs

\* faulty variant: the pruning starts at 1000 entries
pruned_atThreshold(cache, t) ==
    IF Cardinality(DOMAIN cache) >= PruneThreshold
    THEN [k \in {x \in DOMAIN cache : ~(cache[x].lastFetchTime < t - CacheDurationMs)}
            |-> cache[k]]
    ELSE cache

\* Clean old cache entries periodically
pruned(cache, t) ==
    IF Cardinality(DOMAIN cache) > PruneThreshold
    THEN [k \in {x \in DOMAIN cache : ~(cache[x].lastFetchTime < t - CacheDurationMs)}
            |-> cache[k]]
    ELSE cache

\* faulty variant: an empty conversation is posted like any other
conversationEmpty_never(conversation) == FALSE

\* if (conversation.length === 0) throw
conversationEmpty(conversation) == Len(conversation) = 0

\* conversation[0].text of an empty array throws a TypeError
requestBodyThrows(limit, conversation) == limit = 0 /\ Len(conversation) = 0

\* const requestBody = !botConfig.convLength ? { message: conversation[0].text }
\*                                           : { conversation }
requestBody(limit, conversation) ==
    IF limit = 0
    THEN [keys |-> {"message"}, message |-> conversation[1].text,
          conversation |-> <<>>]
    ELSE [keys |-> {"conversation"}, message |-> NoTopic,
          conversation |-> conversation]

\* the rest of processConversation up to axios.post, which reads nothing shared:
\* callLLM throws on an empty conversation, otherwise builds and posts the body
postRequest(call, limit) ==
    IF conversationEmpty(call.conversation)
       \/ requestBodyThrows(limit, call.conversation)
    THEN [call EXCEPT !.pc = "rejected", !.callLLM = TRUE]
    ELSE [call EXCEPT !.pc = "sent", !.callLLM = TRUE,
                      !.body = requestBody(limit, call.conversation)]

\* processConversation after ephemeralFetchConversation: for a trigger that
\* the bot wrote, the user message is looked for first and the function
\* returns when there is none; then callLLM is called with the conversation
afterFetch(call, limit, found) ==
    IF call.regenerate /\ ~found
    THEN [call EXCEPT !.pc = "returned"]
    ELSE postRequest(call, limit)

Started == {n \in DOMAIN calls : calls[n].pc # "none"}

\* a message event in channel c that bot instance b responds to:
\* processConversation(message, ...) is entered
messageCreateIn(c, b) ==
    LET n == Cardinality(Started) + 1
    IN  /\ n <= MaxEvents
        /\ channelLog' = [channelLog EXCEPT ![c] = Append(@, UserMessage(n, c))]
        /\ calls' = [calls EXCEPT ![n] = [NoCall EXCEPT !.pc = "start", !.bot = b,
                                                          !.channel = c]]
        /\ UNCHANGED <<now, handlerVars, restVars, channelCache, channelTopic, convLength,
                       storedBy, nameVars, llmVars>>

\* the channels with a message of the bot that gets a thumbs-down
RegenerateChannelIds == {"general"}

\* a thumbs-down on a message of bot b in channel c: handleReactionAdd enters
\* processConversation(message, true) with the bot's own message
regenerateIn(c, b) ==
    LET n == Cardinality(Started) + 1
    IN  /\ n <= MaxEvents
        /\ channelLog' = [channelLog EXCEPT ![c] = Append(@, BotMessageIn(n, c, b))]
        /\ calls' = [calls EXCEPT ![n] = [NoCall EXCEPT !.pc = "start", !.bot = b,
                                                          !.channel = c,
                                                          !.regenerate = TRUE]]
        /\ UNCHANGED <<now, handlerVars, restVars, channelCache, channelTopic, convLength,
                       storedBy, nameVars, llmVars>>

\* ephemeralFetchConversation up to its await: the cache is read; a fresh entry
\* is returned, otherwise fetchConversationFromDiscord is called
ephemeralFetchCheck(n) ==
    /\ calls[n].pc = "start"
    /\ \E found \in BOOLEAN :
          LET message == TriggerOf(calls[n], n)
              key == cacheKey(message, convLength[calls[n].bot])
              cached == MapGet(channelCache, key, NoEntry)
          IN  IF key \in DOMAIN channelCache /\ cacheFresh(cached, now)
              THEN calls' = [calls EXCEPT ![n] =
                       afterFetch([@ EXCEPT !.t0 = now,
                                            !.from = storedBy[calls[n].channel],
                                            !.conversation = cached.messages],
                                  convLength[calls[n].bot], found)]
              ELSE calls' = [calls EXCEPT ![n].pc = "fetching", ![n].t0 = now]
    /\ UNCHANGED <<now, handlerVars, restVars, channelCache, channelLog, channelTopic,
                   convLength, storedBy, nameVars, llmVars>>

\* the awaited platform calls of fetchConversationFromDiscord resolve (the
\* conversation is built from the channel as it is now) or reject
fetchFromDiscord(n) ==
    /\ calls[n].pc = "fetching"
    /\ \E ok \in BOOLEAN :
          IF ok
          THEN calls' = [calls EXCEPT
                   ![n].pc = "storing",
                   ![n].snapshot =
                       fetchConversationFromDiscord(
                           TriggerOf(calls[n], n), convLength[calls[n].bot],
                           calls[n].bot, channelLog[calls[n].channel],
                           channelTopic[calls[n].channel])]
          ELSE calls' = [calls EXCEPT ![n].pc = "rejected"]
    /\ UNCHANGED <<now, handlerVars, restVars, channelCache, channelLog, channelTopic,
                   convLength, storedBy, nameVars, llmVars>>

\* faulty variant of storedEntry: an entry stamped later than the call is kept
storedEntry_keepNewer(cache, key, call) ==
    IF key \in DOMAIN cache /\ MapGet(cache, key, NoEntry).lastFetchTime > call.t0
    THEN cache[key]
    ELSE [lastFetchTime |-> call.t0, messages |-> call.snapshot]

\* channelCache.set(cacheKey, { lastFetchTime: now, messages }): the entry a
\* call stores, whatever the map holds for the key
storedEntry(cache, key, call) ==
    [lastFetchTime |-> call.t0, messages |-> call.snapshot]

\* ephemeralFetchConversation after its await: the entry of the channel is
\* overwritten, stamped with the time the call started, and the messages returned
ephemeralFetchStore(n) ==
    /\ calls[n].pc = "storing"
    /\ LET message == TriggerOf(calls[n], n)
           key == cacheKey(message, convLength[calls[n].bot])
       IN  channelCache' =
               pruned(MapSet(channelCache, key,
                             storedEntry(channelCache, key, calls[n])),
                      calls[n].t0)
    /\ storedBy' = [storedBy EXCEPT ![calls[n].channel] = n]
    /\ \E found \in BOOLEAN :
          calls' = [calls EXCEPT ![n] =
              afterFetch([@ EXCEPT !.fetched = TRUE, !.conversation = calls[n].snapshot],
                         convLength[calls[n].bot], found)]
    /\ UNCHANGED <<now, handlerVars, restVars, channelLog, channelTopic, convLength,
                   nameVars, llmVars>>

\* time passes while handlers wait
TickCache ==
    /\ now + (CacheDurationMs \div 2) - StartTime
          <= MaxCacheTicks * (CacheDurationMs \div 2)
    /\ now' = now + (CacheDurationMs \div 2)
    /\ UNCHANGED <<handlerVars, layerVars>>

\* the conversation cache of a process that has fetched nothing yet
CacheIdle ==
    /\ channelCache = EmptyMap
    /\ channelLog = [c \in CacheChannelIds |-> <<>>]
    /\ channelTopic = [c \in CacheChannelIds |-> NoTopic]
    /\ convLength = [b \in BotInstances |-> 2]
    /\ calls = [n \in 1..MaxEvents |-> NoCall]
    /\ storedBy = [c \in CacheChannelIds |-> 0]

----------------------------------------------------------------------------
\* Display-name cache: getDisplayName of responseOrchestrator.ts

\* DISPLAY_NAME_CACHE_DURATION = 60 * 60 * 1000
DISPLAY_NAME_CACHE_DURATION == 3600000

\* bounds of the display-name specification
MaxLookups == 2
MaxNameTicks == 2

NameUserIds == {BotId}

\* guildId of the lookup; "" stands for null / undefined
NameGuildIds == {"g1", ""}

Names == {"Bo", "Bobby"}

\* const cacheKey = guildId ? `${guildId}:${userId}` : userId
nameCacheKey(userId, guildId) ==
    IF guildId # "" THEN guildId \o ":" \o userId ELSE userId

NameKeys == {nameCacheKey(u, g) : u \in NameUserIds, g \in NameGuildIds}

NoNameEntry == [displayName |-> "", lastFetchTime |-> 0]

NoLookup ==
    [pc |-> "none", userId |-> "", guildId |-> "", t0 |-> 0, hit |-> FALSE,
     age |-> 0, result |-> "", fallbacks |-> 0]

\* faulty variant: an entry is served up to and including one hour
nameFresh_inclusive(cached, t) == t - cached.lastFetchTime <= DISPLAY_NAME_CACHE_DURATION

\* now - cached.lastFetchTime < DISPLAY_NAME_CACHE_DURATION
nameFresh(cached, t) == t - cached.lastFetchTime < DISPLAY_NAME_CACHE_DURATION

\* Prune cache if too big
prunedNames(cache, t) ==
    IF Cardinality(DOMAIN cache) > PruneThreshold
    THEN [k \in {x \in DOMAIN cache :
                    ~(cache[x].lastFetchTime < t - DISPLAY_NAME_CACHE_DURATION)}
            |-> cache[k]]
    ELSE cache

LookupsStarted == {i \in DOMAIN lookups : lookups[i].pc # "none"}

\* getDisplayName(userId, guildId) up to its first await: a fresh entry is
\* returned, otherwise the platform is asked
getDisplayNameCheck(userId, guildId) ==
    LET i == Cardinality(LookupsStarted) + 1
        key == nameCacheKey(userId, guildId)
        cached == MapGet(displayNameCache, key, NoNameEntry)
    IN  /\ i <= MaxLookups
        /\ IF key \in DOMAIN displayNameCache /\ nameFresh(cached, now)
           THEN lookups' = [lookups EXCEPT ![i] =
                    [pc |-> "returned", userId |-> userId, guildId |-> guildId,
                     t0 |-> now, hit |-> TRUE, age |-> now - cached.lastFetchTime,
                     result |-> cached.displayName, fallbacks |-> 0]]
           ELSE lookups' = [lookups EXCEPT ![i] =
                    [NoLookup EXCEPT !.pc = "fetching", !.userId = userId,
                                     !.guildId = guildId, !.t0 = now]]
        /\ UNCHANGED <<now, handlerVars, restVars, cacheVars, displayNameCache, memberNames,
                       llmVars>>

\* the awaited users.fetch / guilds.fetch / members.fetch resolve: the name is
\* cached, stamped with the time the call started, and returned
getDisplayNameStore(i) ==
    /\ lookups[i].pc = "fetching"
    /\ LET key == nameCacheKey(lookups[i].userId, lookups[i].guildId)
           displayName == memberNames[key]
       IN  /\ displayNameCache' =
                  prunedNames(MapSet(displayNameCache, key,
                                     [displayName |-> displayName,
                                      lastFetchTime |-> lookups[i].t0]),
                              lookups[i].t0)
           /\ lookups' = [lookups EXCEPT ![i].pc = "returned",
                                         ![i].result = displayName]
    /\ UNCHANGED <<now, handlerVars, restVars, cacheVars, memberNames, llmVars>>

\* faulty variant of catchLookup: the error of the lookup is thrown on
catchLookup_rethrow(lookup, names, ok) == [lookup EXCEPT !.pc = "rejected"]

\* the catch block: await client.users.fetch(userId) once more, then
\* return user.globalName ?? user.username; its own rejection is not caught
catchLookup(lookup, names, ok) ==
    IF ok
    THEN [lookup EXCEPT !.pc = "returned", !.fallbacks = @ + 1,
                        !.result = names[nameCacheKey(lookup.userId, "")]]
    ELSE [lookup EXCEPT !.pc = "rejected", !.fallbacks = @ + 1]

\* one of the awaited fetches rejects: the catch block fetches the user again and
\* returns globalName ?? username, uncached, or rejects as well
getDisplayNameCatch(i) ==
    /\ lookups[i].pc = "fetching"
    /\ \E ok \in BOOLEAN :
          lookups' = [lookups EXCEPT ![i] = catchLookup(lookups[i], memberNames, ok)]
    /\ UNCHANGED <<now, handlerVars, restVars, cacheVars, displayNameCache, memberNames,
                   llmVars>>

\* the platform: a member changes the nickname, a user the global name
rename(key, name) ==
    /\ memberNames[key] # name
    /\ memberNames' = [memberNames EXCEPT ![key] = name]
    /\ UNCHANGED <<now, handlerVars, restVars, cacheVars, displayNameCache, lookups, llmVars>>

\* time passes
TickNames ==
    /\ now + (DISPLAY_NAME_CACHE_DURATION \div 2) - StartTime
          <= MaxNameTicks * (DISPLAY_NAME_CACHE_DURATION \div 2)
    /\ now' = now + (DISPLAY_NAME_CACHE_DURATION \div 2)
    /\ UNCHANGED <<handlerVars, layerVars>>

\* the display-name cache of a process that has looked nothing up yet
NamesIdle ==
    /\ displayNameCache = EmptyMap
    /\ memberNames = [k \in NameKeys |-> "Bo"]
    /\ lookups = [i \in 1..MaxLookups |-> NoLookup]

----------------------------------------------------------------------------
\* Inference client: callLLM and parseLLMResponse of llmAPI.ts

GenericFailure == "Failed to get response from LLM"

\* the HTTP statuses the endpoint answers with
Statuses == {200, 201, 429, 500}

\* the reply member of a response body: a string, message options, or absent
NoReply == [t |-> "undefined", v |-> ""]
Replies == {[t |-> "string", v |-> "hi there"], [t |-> "object", v |-> "embeds"]}

\* response.data as axios hands it over: a string, a JSON object with the
\* members listed in has, or null
StringBody(str) ==
    [json |-> "string", str |-> str, has |-> {}, success |-> FALSE,
     reply |-> NoReply, error |-> ""]

ObjectBody(has, success, reply, error) ==
    [json |-> "object", str |-> "", has |-> has, success |-> success,
     reply |-> reply, error |-> error]

NullBody ==
    [json |-> "null", str |-> "", has |-> {}, success |-> FALSE,
     reply |-> NoReply, error |-> ""]

NoData ==
    [json |-> "none", str |-> "", has |-> {}, success |-> FALSE,
     reply |-> NoReply, error |-> ""]

Bodies ==
    {StringBody("raw text"), NullBody,
     ObjectBody({}, FALSE, NoReply, ""),
     ObjectBody({"text"}, FALSE, NoReply, ""),
     ObjectBody({"error"}, FALSE, NoReply, "quota exceeded"),
     ObjectBody({"success"}, FALSE, NoReply, ""),
     ObjectBody({"success", "error"}, FALSE, NoReply, "quota exceeded")}
    \cup {ObjectBody({"success", "reply"}, TRUE, r, "") : r \in Replies}

\* what axios.post can do: no response at all, or a response with a status
Responses ==
    {[kind |-> "network", status |-> 0, data |-> NoData]}
    \cup {[kind |-> "http", status |-> st, data |-> d] : st \in Statuses, d \in Bodies}

NoResponse == [kind |-> "none", status |-> 0, data |-> NoData]

\* string contents: a string as it is, or JSON.stringify(data, null, 2)
literal(str) == [str |-> str, serialised |-> NoData]
stringify(data) == [str |-> "", serialised |-> data]

\* BaseMessageOptions: { content }, or the options object of the body
wrapContent(content) == [content |-> content, options |-> ""]
passThrough(reply) == [content |-> literal(""), options |-> reply.v]
NoOptions == [content |-> literal(""), options |-> ""]

\* LLMResult values, and a thrown Error with its message
Success(reply) == [type |-> "success", reply |-> reply, message |-> ""]
RateLimited == [type |-> "rate_limited", reply |-> NoOptions, message |-> ""]
Thrown(message) == [type |-> "throw", reply |-> NoOptions, message |-> message]
NoResult == [type |-> "none", reply |-> NoOptions, message |-> ""]

\* faulty variant: the reply member is passed on as it is, never wrapped
parseLLMResponse_noWrap(data) ==
    IF data.json = "null"
    THEN Thrown("TypeError")
    ELSE IF data.json = "string" \/ "success" \notin data.has
    THEN Success(wrapContent(stringify(data)))
    ELSE IF ~data.success
    THEN Thrown(IF "error" \in data.has THEN data.error ELSE "API request failed")
    ELSE Success(passThrough(data.reply))

\* parseLLMResponse(data): the LLMResult it returns or the Error it throws
\* (reading a member of null throws a TypeError)
parseLLMResponse(data) ==
    IF data.json = "null"
    THEN Thrown("TypeError")
    ELSE IF data.json = "string" \/ "success" \notin data.has
    THEN Success(wrapContent(IF data.json = "string"
                             THEN literal(data.str)
                             ELSE stringify(data)))
    ELSE IF ~data.success
    THEN Thrown(IF "error" \in data.has THEN data.error ELSE "API request failed")
    ELSE Success(IF data.reply.t = "string"
                 THEN wrapContent(literal(data.reply.v))
                 ELSE passThrough(data.reply))

\* axios rejects a response whose status is outside 2xx (default validateStatus)
axiosRejects(response) ==
    response.kind = "network" \/ response.status < 200 \/ response.status >= 300

\* axiosError.response.data?.error is truthy
hasUpstreamError(data) ==
    data.json = "object" /\ "error" \in data.has /\ data.error # ""

\* faulty variant: the upstream error message is looked at before the status
catchAxiosError_errorFirst(response) ==
    IF response.kind = "http" /\ hasUpstreamError(response.data)
    THEN Thrown(response.data.error)
    ELSE IF response.kind = "http" /\ response.status = 429
    THEN RateLimited
    ELSE Thrown(GenericFailure)

\* the catch block of callLLM for an AxiosError
catchAxiosError(response) ==
    IF response.kind = "http" /\ response.status = 429
    THEN RateLimited
    ELSE IF response.kind = "http" /\ hasUpstreamError(response.data)
    THEN Thrown(response.data.error)
    ELSE Thrown(GenericFailure)

\* the catch block of callLLM for an Error thrown inside the try block
catchOwnError(thrown) == Thrown(GenericFailure)

\* callLLM once axios.post has settled with response
callLLMOutcome(response) ==
    IF axiosRejects(response)
    THEN catchAxiosError(response)
    ELSE IF response.status # 200
    THEN catchOwnError(Thrown("Request failed with status code"))
    ELSE LET parsed == parseLLMResponse(response.data)
         IN  IF parsed.type = "throw" THEN catchOwnError(parsed) ELSE parsed

\* the conversations callLLM is called with
LLMConversations ==
    {<<>>,
     <<[username |-> "alice", text |-> MessageText(1)]>>,
     <<[username |-> "Channel Topic", text |-> TopicText],
       [username |-> "alice", text |-> MessageText(1)]>>}

\* An optional field of the configuration is the set of its values: empty when
\* the field is undefined.
\* botConfig.sessionHeaderName: undefined, the empty text, or a header name
SessionHeaders == {{}, {""}, {"X-Session-ID"}}

\* botConfig.apiKey: undefined or a key
ApiKeys == {{}, {"key"}}

\* the session id callLLM is called with
LLMSessionId == "sid"

\* `${value}`: the text a template literal puts for an optional value
templateText(option) ==
    IF option = {} THEN "undefined" ELSE CHOOSE v \in option : TRUE

\* option && {...}: whether an optional text is truthy
truthy(option) == option # {} /\ option # {""}

\* the headers object of the request: a header's value is the sequence of the
\* pieces it is put together from; the spread session header is written last
requestHeaders(apiKey, sessionHeaderName, sid) ==
    (IF truthy(sessionHeaderName)
     THEN (CHOOSE name \in sessionHeaderName : TRUE) :> <<sid>>
     ELSE EmptyMap)
    @@ ("Authorization" :> <<"Bearer ", templateText(apiKey)>>)
    @@ ("Content-Type" :> <<"application/json">>)

NoLLM ==
    [pc |-> "idle", convLength |-> 0, sessionHeaderName |-> {}, apiKey |-> {},
     conversation |-> <<>>, posts |-> 0, body |-> NoBody, headers |-> EmptyMap,
     response |-> NoResponse, result |-> NoResult]

\* callLLM up to the awaited axios.post
axiosPost ==
    /\ llm.pc = "callLLM"
    /\ IF conversationEmpty(llm.conversation)
          \/ requestBodyThrows(llm.convLength, llm.conversation)
       THEN llm' = [llm EXCEPT !.pc = "done", !.result = catchOwnError(Thrown("thrown"))]
       ELSE llm' = [llm EXCEPT !.pc = "awaiting", !.posts = @ + 1,
                               !.body = requestBody(llm.convLength, llm.conversation),
                               !.headers = requestHeaders(llm.apiKey,
                                                          llm.sessionHeaderName,
                                                          LLMSessionId)]
    /\ UNCHANGED <<now, handlerVars, restVars, cacheVars, nameVars>>

\* axios.post settles; callLLM returns or throws
axiosSettles(response) ==
    /\ llm.pc = "awaiting"
    /\ llm' = [llm EXCEPT !.pc = "done", !.response = response,
                          !.result = callLLMOutcome(response)]
    /\ UNCHANGED <<now, handlerVars, restVars, cacheVars, nameVars>>

\* no call of the inference client
LLMIdle == llm = NoLLM

----------------------------------------------------------------------------
\* The session id of processConversation: JSON.stringify of the session data,
\* UTF-8 bytes, base64. A text is a sequence of characters. The decoding is what
\* the receiver of the X-Session-ID header does to read it back.

\* the UTF-8 byte of each character the session data is written with (ASCII)
charCode ==
    "{" :> 123 @@ "}" :> 125 @@ "\"" :> 34 @@ ":" :> 58 @@ "," :> 44 @@
    "b" :> 98 @@ "o" :> 111 @@ "t" :> 116 @@ "I" :> 73 @@ "d" :> 100 @@
    "N" :> 78 @@ "a" :> 97 @@ "m" :> 109 @@ "e" :> 101 @@ "u" :> 117 @@
    "s" :> 115 @@ "r" :> 114 @@ "c" :> 99 @@ "h" :> 104 @@ "n" :> 110 @@
    "l" :> 108 @@ "B" :> 66 @@ "1" :> 49 @@ "2" :> 50 @@ "3" :> 51 @@
    "4" :> 52

\* Buffer.from(text): the bytes of a text
toBytes(text) == [k \in 1..Len(text) |-> charCode[text[k]]]

\* buffer.toString(): the text of the bytes
fromBytes(bytes) ==
    [k \in 1..Len(bytes) |-> CHOOSE ch \in DOMAIN charCode : charCode[ch] = bytes[k]]

\* the base64 alphabet: the character of each sextet 0..63
Base64Alphabet ==
    <<"A", "B", "C", "D", "E", "F", "G", "H", "I", "J", "K", "L", "M", "N", "O", "P",
      "Q", "R", "S", "T", "U", "V", "W", "X", "Y", "Z", "a", "b", "c", "d", "e", "f",
      "g", "h", "i", "j", "k", "l", "m", "n", "o", "p", "q", "r", "s", "t", "u", "v",
      "w", "x", "y", "z", "0", "1", "2", "3", "4", "5", "6", "7", "8", "9", "+", "/">>

\* the padding character
Pad == "="

\* the four characters that encode a group of one to three bytes
encodeGroup(b) ==
    LET n == Len(b)
        b1 == b[1]
        b2 == IF n >= 2 THEN b[2] ELSE 0
        b3 == IF n >= 3 THEN b[3] ELSE 0
    IN  <<Base64Alphabet[(b1 \div 4) + 1],
          Base64Alphabet[((b1 % 4) * 16 + (b2 \div 16)) + 1],
          IF n >= 2 THEN Base64Alphabet[((b2 % 16) * 4 + (b3 \div 64)) + 1] ELSE Pad,
          IF n >= 3 THEN Base64Alphabet[(b3 % 64) + 1] ELSE Pad>>

\* buffer.toString("base64")
RECURSIVE base64(_)
base64(bytes) ==
    IF Len(bytes) = 0 THEN <<>>
    ELSE IF Len(bytes) <= 3 THEN encodeGroup(bytes)
    ELSE encodeGroup(SubSeq(bytes, 1, 3)) \o base64(SubSeq(bytes, 4, Len(bytes)))

\* the sextet a character of the alphabet stands for
sextet(ch) ==
    IF ch = Pad THEN 0
    ELSE (CHOOSE v \in 1..64 : Base64Alphabet[v] = ch) - 1

\* the one to three bytes that four characters encode
decodeGroup(q) ==
    LET n == IF q[3] = Pad THEN 1 ELSE IF q[4] = Pad THEN 2 ELSE 3
        all == <<sextet(q[1]) * 4 + (sextet(q[2]) \div 16),
                 (sextet(q[2]) % 16) * 16 + (sextet(q[3]) \div 4),
                 (sextet(q[3]) % 4) * 64 + sextet(q[4])>>
    IN  SubSeq(all, 1, n)

\* Buffer.from(text, "base64")
RECURSIVE unbase64(_)
unbase64(text) ==
    IF Len(text) < 4 THEN <<>>
    ELSE decodeGroup(SubSeq(text, 1, 4)) \o unbase64(SubSeq(text, 5, Len(text)))

\* the property names of the session data
KeyBotId == <<"b", "o", "t", "I", "d">>
KeyBotName == <<"b", "o", "t", "N", "a", "m", "e">>
KeyUserId == <<"u", "s", "e", "r", "I", "d">>
KeyChannelId == <<"c", "h", "a", "n", "n", "e", "l", "I", "d">>

\* a JSON string literal (no character of the texts here needs an escape)
quote(text) == <<"\"">> \o text \o <<"\"">>

member(key, value) == quote(key) \o <<":">> \o quote(value)

\* JSON.stringify(sessionData): the properties in the order they were written
JSONstringify(data) ==
    <<"{">> \o member(KeyBotId, data.botId) \o <<",">>
            \o member(KeyBotName, data.botName) \o <<",">>
            \o member(KeyUserId, data.userId) \o <<",">>
            \o member(KeyChannelId, data.channelId) \o <<"}">>

\* the string literals of a JSON text, in order: key, value, key, value, ...
literals(text) ==
    LET q == SelectSeq([k \in 1..Len(text) |-> k], LAMBDA k : text[k] = "\"")
    IN  [k \in 1..(Len(q) \div 2) |-> SubSeq(text, q[2 * k - 1] + 1, q[2 * k] - 1)]

\* JSON.parse of an object of string properties: property name -> value
JSONparse(text) ==
    LET st == literals(text)
        n == Len(st) \div 2
    IN  [key \in {st[2 * k - 1] : k \in 1..n} |->
            st[2 * (CHOOSE k \in 1..n : st[2 * k - 1] = key)]]

\* faulty variant of sessionChannelId: always the channel's own id
sessionChannelId_own(channel) == channel.id

\* channelId: channel.isThread() ? channel.parentId : channel.id
sessionChannelId(channel) ==
    IF isThread(channel) THEN channel.parentId ELSE channel.id

\* const sessionData = { botId, botName, userId, channelId }
sessionData(botId, botName, user, channel) ==
    [botId |-> botId, botName |-> botName, userId |-> user.author.id,
     channelId |-> sessionChannelId(channel)]

\* const sessionId = Buffer.from(JSON.stringify(sessionData)).toString("base64")
sessionId(data) == base64(toBytes(JSONstringify(data)))

\* reading a session id back
decodeSessionId(id) == JSONparse(fromBytes(unbase64(id)))

\* inputs: snowflakes and names, as texts
SessionBotIds == {<<"1">>, <<"1", "2">>}
SessionBotNames == {<<"B", "o">>, <<"B", "o", "b">>}
SessionUsers == {[author |-> [id |-> u]] : u \in {<<"2">>, <<"3", "4">>, <<"1", "2">>}}
SessionChannels ==
    {[id |-> <<"3">>, kind |-> "GuildText", parentId |-> <<>>],
     [id |-> <<"4">>, kind |-> "DM", parentId |-> <<>>],
     [id |-> <<"4", "1">>, kind |-> "Thread", parentId |-> <<"3">>],
     [id |-> <<"4", "2">>, kind |-> "Thread", parentId |-> <<"2", "1">>]}

NoSession ==
    [pc |-> "idle", botId |-> <<>>, botName |-> <<>>, userMessage |-> [author |-> [id |-> <<>>]],
     channel |-> [id |-> <<>>, kind |-> "none", parentId |-> <<>>],
     sessionId |-> <<>>, decoded |-> <<>>, earlier |-> <<>>]

\* processConversation builds the session id of the event
buildSessionId ==
    /\ session.pc = "processConversation"
    /\ session' = [session EXCEPT
           !.pc = "callLLM",
           !.sessionId = sessionId(sessionData(session.botId, session.botName,
                                               session.userMessage, session.channel))]
    /\ UNCHANGED <<now, handlerVars, cacheVars, nameVars, llmVars,
                   reactionVars, managerVars, mention, prune>>

\* the inference endpoint reads the header
readSessionId ==
    /\ session.pc = "callLLM"
    /\ session' = [session EXCEPT !.pc = "decoded",
                                  !.decoded = decodeSessionId(session.sessionId)]
    /\ UNCHANGED <<now, handlerVars, cacheVars, nameVars, llmVars,
                   reactionVars, managerVars, mention, prune>>

\* a later event of the same bot with the same resolved user in the same
\* channel: botName is what getDisplayName(botId, message.guildId) resolves to
\* at that moment (the bot may have been renamed, or the lookup has fallen back
\* to the global name); the id of the earlier event is remembered
processConversationAgain ==
    /\ session.pc = "decoded"
    /\ session.earlier = <<>>
    /\ \E name \in SessionBotNames :
          session' = [session EXCEPT !.pc = "processConversation",
                                     !.botName = name,
                                     !.earlier = session.sessionId,
                                     !.sessionId = <<>>,
                                     !.decoded = <<>>]
    /\ UNCHANGED <<now, handlerVars, cacheVars, nameVars, llmVars,
                   reactionVars, managerVars, mention, prune>>

----------------------------------------------------------------------------
\* Mention substitution of fetchConversationFromDiscord: replaceMentions with
\* mentionRegex = /<@!?(\d+)>/g. A text is a sequence of characters.

Digits == {"0", "1", "2", "3", "4", "5", "6", "7", "8", "9"}

\* the last position of the longest run of digits from position j on (j - 1
\* when the character at j is no digit)
RECURSIVE digitsEnd(_, _)
digitsEnd(text, j) ==
    IF j <= Len(text) /\ text[j] \in Digits THEN digitsEnd(text, j + 1) ELSE j - 1

\* mentionRegex tried at position i: "<@", an optional "!", digits, ">"
matchAt(text, i) ==
    LET n == Len(text)
        opens == i + 1 <= n /\ text[i] = "<" /\ text[i + 1] = "@"
        j == IF i + 2 <= n /\ text[i + 2] = "!" THEN i + 3 ELSE i + 2
        e == digitsEnd(text, j)
    IN  IF opens /\ e >= j /\ e + 1 <= n /\ text[e + 1] = ">"
        THEN [ok |-> TRUE, id |-> SubSeq(text, j, e), end |-> e + 1]
        ELSE [ok |-> FALSE, id |-> <<>>, end |-> i]

\* nameMap.get(matchedUserId) ?? `<@${matchedUserId}>`
replacement(nameMap, matchedUserId) ==
    IF matchedUserId \in DOMAIN nameMap
    THEN nameMap[matchedUserId]
    ELSE <<"<", "@">> \o matchedUserId \o <<">">>

\* text.replace(mentionRegex, ...) from position i on
RECURSIVE replaceFrom(_, _, _)
replaceFrom(text, nameMap, i) ==
    IF i > Len(text) THEN <<>>
    ELSE LET m == matchAt(text, i)
         IN  IF m.ok
             THEN replacement(nameMap, m.id) \o replaceFrom(text, nameMap, m.end + 1)
             ELSE <<text[i]>> \o replaceFrom(text, nameMap, i + 1)

replaceMentions(text, nameMap) == replaceFrom(text, nameMap, 1)

\* the mention tokens of a text from position i on, in order: what was matched
\* and the id in it
RECURSIVE mentionsFrom(_, _)
mentionsFrom(text, i) ==
    IF i > Len(text) THEN <<>>
    ELSE LET m == matchAt(text, i)
         IN  IF m.ok
             THEN <<[raw |-> SubSeq(text, i, m.end), id |-> m.id]>>
                  \o mentionsFrom(text, m.end + 1)
             ELSE mentionsFrom(text, i + 1)

\* inputs: message contents made of up to two of these pieces
MentionPieces ==
    {<<"h", "i">>, <<" ">>, <<"<", "@">>, <<"<", "@", ">">>,
     <<"<", "@", "1", ">">>, <<"<", "@", "!", "1", ">">>,
     <<"<", "@", "2", ">">>, <<"<", "@", "!", "2", ">">>,
     <<"<", "@", "1", "2", ">">>}

MentionTexts == MentionPieces \cup {a \o b : a \in MentionPieces, b \in MentionPieces}

\* inputs: the display names of the authors of the fetched messages
MentionNameMaps ==
    {EmptyMap,
     [id \in {<<"1">>} |-> <<"A", "l">>],
     [id \in {<<"1">>, <<"2">>} |-> IF id = <<"1">> THEN <<"A", "l">> ELSE <<"B", "o">>]}

NoMention == [pc |-> "idle", text |-> <<>>, nameMap |-> EmptyMap, out |-> <<>>, again |-> <<>>]

\* text: replaceMentions(msg.content || "")
formatMessage ==
    /\ mention.pc = "fetched"
    /\ mention' = [mention EXCEPT !.pc = "formatted",
                                  !.out = replaceMentions(mention.text, mention.nameMap)]
    /\ UNCHANGED <<now, handlerVars, cacheVars, nameVars, llmVars,
                   reactionVars, managerVars, session, prune>>

\* the substitution applied to its own output
formatAgain ==
    /\ mention.pc = "formatted"
    /\ mention' = [mention EXCEPT !.pc = "done",
                                  !.again = replaceMentions(mention.out, mention.nameMap)]
    /\ UNCHANGED <<now, handlerVars, cacheVars, nameVars, llmVars,
                   reactionVars, managerVars, session, prune>>

----------------------------------------------------------------------------
\* botManager.ts: one client per configured bot, and the module-level client
\* reference that getDisplayName reads through getBotClient()

\* bound: events handled in one run
MaxBotEvents == 2

\* let _client: Client | null = null
NoClient == ""

\* the bots of bots.json
ManagerBots == BotInstances \cup {"bot3"}

\* client.once("ready", ...) of bot b: initBotClientAccess(client) stores the
\* client of this bot in _client, then the event handlers are registered
clientReady(b) ==
    /\ b \notin ready
    /\ _client' = b
    /\ ready' = ready \cup {b}
    /\ UNCHANGED reads
    /\ UNCHANGED <<now, handlerVars, cacheVars, nameVars, llmVars, reactionVars, textVars>>

\* an event of bot b is handled: the handler takes message.client, which is
\* the client of b, and getDisplayName takes getBotClient(), which is _client
handleEventOf(b) ==
    /\ b \in ready
    /\ Len(reads) < MaxBotEvents
    /\ reads' = Append(reads, [bot |-> b, messageClient |-> b, getBotClient |-> _client])
    /\ UNCHANGED <<_client, ready>>
    /\ UNCHANGED <<now, handlerVars, cacheVars, nameVars, llmVars, reactionVars, textVars>>

----------------------------------------------------------------------------
\* handleReactionAdd of eventHandler.ts: reactions on one message of this bot
\* (and on messages of others), handled by interleaved invocations

\* bound: reaction events in one run
MaxReactions == 2

ThumbsUp == "thumbsup"
ThumbsDown == "thumbsdown"

\* reaction.emoji.name of the events
ReactionEmojis == {ThumbsUp, ThumbsDown, "heart"}

\* two of the nine emoji of responseEmojis
responseEmojis == {"sunglasses", "sparkles"}

\* the message of this bot the reactions are put on
BotMessage ==
    [author |-> SelfAuthor, type |-> "Default", channel |-> GuardChannel("general"),
     mentions |-> NoMentions, content |-> <<"h", "i">>]

NoReaction == [pc |-> "none", emoji |-> "", author |-> "", randomEmoji |-> ""]

\* message.reactions.cache.some((r) => r.users.cache.has(botId))
alreadyReacted(cache) == cache # {}

\* client.on("messageReactionAdd", handleReactionAdd): somebody reacts with
\* emoji to a message written by author
messageReactionAdd(emoji, author) ==
    /\ ~deleted
    /\ \E i \in DOMAIN reactions :
          /\ reactions[i].pc = "none"
          /\ \A j \in 1..(i - 1) : reactions[j].pc # "none"
          /\ reactions' = [reactions EXCEPT ![i] =
                 [pc |-> "received", emoji |-> emoji, author |-> author,
                  randomEmoji |-> ""]]
    /\ UNCHANGED <<reacted, deleted>>
    /\ UNCHANGED <<now, handlerVars, cacheVars, nameVars, llmVars, managerVars, textVars>>

\* handleReactionAdd up to its first await after the partials are resolved, for
\* every event but a thumbs-down on a message of this bot: a failed fetch of a
\* partial returns, a message of somebody else returns, a thumbs-up looks into
\* the reactions cache and then calls message.react(randomEmoji)
handleReactionAdd(i) ==
    /\ reactions[i].pc = "received"
    /\ ~(reactions[i].emoji = ThumbsDown /\ reactions[i].author = BotId)
    /\ \E fetched \in BOOLEAN, randomEmoji \in responseEmojis :
          reactions' = [reactions EXCEPT ![i] =
             IF \/ ~fetched
                \/ reactions[i].author # BotId
                \/ reactions[i].emoji # ThumbsUp
                \/ alreadyReacted(reacted)
             THEN [@ EXCEPT !.pc = "returned"]
             ELSE [@ EXCEPT !.pc = "react", !.randomEmoji = randomEmoji]]
    /\ UNCHANGED <<reacted, deleted>>
    /\ UNCHANGED <<now, handlerVars, cacheVars, nameVars, llmVars, managerVars, textVars>>

\* await message.react(randomEmoji) settles: the reaction is on the message and
\* in the reactions cache, or the call failed and the catch block swallows it
reactSettles(i) ==
    /\ reactions[i].pc = "react"
    /\ \E ok \in BOOLEAN :
          reacted' = IF ok THEN reacted \cup {reactions[i].randomEmoji} ELSE reacted
    /\ reactions' = [reactions EXCEPT ![i].pc = "returned"]
    /\ UNCHANGED deleted
    /\ UNCHANGED <<now, handlerVars, cacheVars, nameVars, llmVars, managerVars, textVars>>

\* a thumbs-down on a message of this bot: processConversation(message, true)
\* is entered (one run at a time here), or the fetch of a partial failed
thumbsDown(i) ==
    /\ reactions[i].pc = "received"
    /\ reactions[i].emoji = ThumbsDown
    /\ reactions[i].author = BotId
    /\ pc = "idle"
    /\ \E fetched \in BOOLEAN :
          IF fetched
          THEN /\ reactions' = [reactions EXCEPT ![i].pc = "processConversation"]
               /\ msg' = BotMessage
               /\ respondAsReply' = TRUE
               /\ pc' = IF isSendable(BotMessage.channel)
                        THEN "ephemeralFetchConversation"
                        ELSE "returned"
          ELSE /\ reactions' = [reactions EXCEPT ![i].pc = "returned"]
               /\ UNCHANGED <<msg, respondAsReply, pc>>
    /\ UNCHANGED <<botConfig, now, botToBotChains, respond, nameSeen, fx, delivered,
                   typingInterval, run, humanSince, gap, streak, eventVars>>
    /\ UNCHANGED <<reacted, deleted>>
    /\ UNCHANGED <<cacheVars, nameVars, llmVars, managerVars, textVars>>

\* faulty variant of runSettled: processConversation is not awaited
runSettled_notAwaited(p) == TRUE

\* await processConversation(message, true) has settled
runSettled(p) == p \in {"returned", "rejected"}

\* after the awaited run: message.delete() when the run returned; when it
\* threw, the catch block swallows the error and nothing is deleted
messageDelete(i) ==
    /\ reactions[i].pc = "processConversation"
    /\ runSettled(pc)
    /\ deleted' = (deleted \/ pc # "rejected")
    /\ reactions' = [reactions EXCEPT ![i].pc = "returned"]
    /\ UNCHANGED reacted
    /\ UNCHANGED <<now, handlerVars, cacheVars, nameVars, llmVars, managerVars, textVars>>

----------------------------------------------------------------------------
\* The pruning of the two caches, with maps about as large as the threshold:
\* displayNameCache.set / channelCache.set followed by the size test and the
\* loop that deletes. The keys of the maps are numbered here.

\* the entries a map holds before the store
PruneFills == {PruneThreshold - 1, PruneThreshold, PruneThreshold + 1}

\* how the ages of the entries are spread: mixed (three ways), all older than
\* the cache duration, all younger
PrunePatterns == 0..4

\* lastFetchTime of entry k, relative to the time the pruning compares with:
\* one ms older, equal, one ms younger
ageOffset(k, p) ==
    CASE p = 3 -> 0 - 1
      [] p = 4 -> 1
      [] OTHER -> ((k + p) % 3) - 1

\* the cache duration of each of the two caches
durationOf(kind) ==
    IF kind = "names" THEN DISPLAY_NAME_CACHE_DURATION ELSE CacheDurationMs

\* an entry of each of the two caches
entryOf(kind, t) ==
    IF kind = "names"
    THEN [displayName |-> "Bo", lastFetchTime |-> t]
    ELSE [lastFetchTime |-> t, messages |-> <<>>]

filledCache(kind, n, t, p) ==
    [k \in 1..n |-> entryOf(kind, t - durationOf(kind) + ageOffset(k, p))]

NoPrune ==
    [pc |-> "idle", kind |-> "", before |-> <<>>, key |-> 0, t0 |-> 0, cache |-> <<>>]

\* the store and the pruning that follows it, as getDisplayName and
\* ephemeralFetchConversation do them with the now they read when they started
cacheSet ==
    /\ prune.pc = "set"
    /\ prune' = [prune EXCEPT
           !.pc = "stored",
           !.cache = IF prune.kind = "names"
                     THEN prunedNames(MapSet(prune.before, prune.key,
                                             entryOf("names", prune.t0)), prune.t0)
                     ELSE pruned(MapSet(prune.before, prune.key,
                                        entryOf("conversation", prune.t0)), prune.t0)]
    /\ UNCHANGED <<now, handlerVars, cacheVars, nameVars, llmVars,
                   reactionVars, managerVars, session, mention>>

----------------------------------------------------------------------------
\* The layers below at rest

ReactionsIdle ==
    /\ reactions = [i \in 1..MaxReactions |-> NoReaction]
    /\ reacted = {}
    /\ deleted = FALSE

ManagerIdle ==
    /\ _client = NoClient
    /\ ready = {}
    /\ reads = <<>>

TextIdle ==
    /\ session = NoSession
    /\ mention = NoMention
    /\ prune = NoPrune

RestIdle == ReactionsIdle /\ ManagerIdle /\ TextIdle

----------------------------------------------------------------------------
\* Specifications

InitCommon ==
    /\ now = StartTime
    /\ botToBotChains = EmptyMap
    /\ respond = "none"
    /\ respondAsReply = FALSE
    /\ nameSeen = NotCalled
    /\ fx = {}
    /\ delivered = "none"
    /\ typingInterval = FALSE
    /\ run = [c \in ChannelIds |-> <<>>]
    /\ humanSince = [c \in ChannelIds |-> "no"]
    /\ gap = -1
    /\ streak = NoStreak
    /\ aiResult = "none"
    /\ outbox = <<>>
    /\ userMessage = NoUserMessage
    /\ CacheIdle
    /\ NamesIdle
    /\ LLMIdle
    /\ RestIdle

\* the bot after "ready": no event yet, the chain table empty
Init ==
    /\ InitCommon
    /\ botConfig \in GuardConfigs
    /\ msg = NoMessage
    /\ pc = "idle"

Next ==
    \/ \E m \in GuardMessages : messageCreate(m)
    \/ \E d \in Deltas : Tick(d)
    \/ settle
    \/ handleMessageCreate
    \/ ephemeralFetchConversation
    \/ sendTyping
    \/ getDisplayName
    \/ callLLM
    \/ deliver
    \/ fallback

Spec == Init /\ [][Next]_vars

\* one message event of any shape, handled from the state after "ready"
InitPolicy ==
    /\ InitCommon
    /\ botConfig \in PolicyConfigs
    /\ msg \in PolicyMessages
    /\ pc = "received"

NextPolicy ==
    \/ handleMessageCreate
    \/ ephemeralFetchConversation
    \/ sendTyping
    \/ getDisplayName
    \/ callLLM
    \/ deliver
    \/ fallback

SpecPolicy == InitPolicy /\ [][NextPolicy]_vars

\* the event handler at rest
HandlerIdle ==
    /\ botConfig = [respondTo |-> "dynamic", respondAsReply |-> FALSE]
    /\ botToBotChains = EmptyMap
    /\ msg = NoMessage
    /\ pc = "idle"
    /\ respond = "none"
    /\ respondAsReply = FALSE
    /\ nameSeen = NotCalled
    /\ fx = {}
    /\ delivered = "none"
    /\ typingInterval = FALSE
    /\ run = [c \in ChannelIds |-> <<>>]
    /\ humanSince = [c \in ChannelIds |-> "no"]
    /\ gap = -1
    /\ streak = NoStreak
    /\ aiResult = "none"
    /\ outbox = <<>>
    /\ userMessage = NoUserMessage

\* two bot instances, one configured for no history and one for two messages of
\* history; an empty cache; a guild channel both serve, with or without a topic,
\* and a DM channel of the first bot
InitCache ==
    /\ now = StartTime
    /\ HandlerIdle
    /\ channelCache = EmptyMap
    /\ channelLog = [c \in CacheChannelIds |-> <<>>]
    /\ channelTopic \in {[c \in CacheChannelIds |-> IF c = "general" THEN t ELSE NoTopic] :
                            t \in {NoTopic, TopicText}}
    /\ convLength = [b \in BotInstances |-> IF b = BotId THEN 0 ELSE 2]
    /\ calls = [n \in 1..MaxEvents |-> NoCall]
    /\ storedBy = [c \in CacheChannelIds |-> 0]
    /\ NamesIdle
    /\ LLMIdle
    /\ RestIdle

NextCache ==
    \/ \E c \in CacheChannelIds : \E b \in Recipients(c) : messageCreateIn(c, b)
    \/ \E c \in RegenerateChannelIds : regenerateIn(c, BotId)
    \/ \E n \in 1..MaxEvents : ephemeralFetchCheck(n)
    \/ \E n \in 1..MaxEvents : fetchFromDiscord(n)
    \/ \E n \in 1..MaxEvents : ephemeralFetchStore(n)
    \/ TickCache

SpecCache == InitCache /\ [][NextCache]_vars

\* an empty display-name cache; every user is called "Bo" to begin with
InitNames ==
    /\ now = StartTime
    /\ HandlerIdle
    /\ CacheIdle
    /\ NamesIdle
    /\ LLMIdle
    /\ RestIdle

NextNames ==
    \/ \E u \in NameUserIds, g \in NameGuildIds : getDisplayNameCheck(u, g)
    \/ \E i \in 1..MaxLookups : getDisplayNameStore(i)
    \/ \E i \in 1..MaxLookups : getDisplayNameCatch(i)
    \/ \E k \in NameKeys, name \in Names : rename(k, name)
    \/ TickNames

SpecNames == InitNames /\ [][NextNames]_vars

\* callLLM called with any configuration and conversation
InitLLM ==
    /\ now = StartTime
    /\ HandlerIdle
    /\ CacheIdle
    /\ NamesIdle
    /\ RestIdle
    /\ llm \in {[NoLLM EXCEPT !.pc = "callLLM", !.convLength = l,
                               !.sessionHeaderName = h, !.apiKey = k,
                               !.conversation = cv] :
                    l \in ConvLengths, h \in SessionHeaders, k \in ApiKeys,
                    cv \in LLMConversations}

NextLLM ==
    \/ axiosPost
    \/ \E response \in Responses : axiosSettles(response)

SpecLLM == InitLLM /\ [][NextLLM]_vars

\* the session id of one event, built and read back
InitSession ==
    /\ now = StartTime
    /\ HandlerIdle
    /\ CacheIdle
    /\ NamesIdle
    /\ LLMIdle
    /\ ReactionsIdle
    /\ ManagerIdle
    /\ mention = NoMention
    /\ prune = NoPrune
    /\ session \in {[NoSession EXCEPT !.pc = "processConversation", !.botId = b,
                                       !.botName = n, !.userMessage = u, !.channel = c] :
                        b \in SessionBotIds, n \in SessionBotNames,
                        u \in SessionUsers, c \in SessionChannels}

NextSession ==
    \/ buildSessionId
    \/ readSessionId
    \/ processConversationAgain

SpecSession == InitSession /\ [][NextSession]_vars

\* the content of one fetched message, formatted with the names of the authors
InitMentions ==
    /\ now = StartTime
    /\ HandlerIdle
    /\ CacheIdle
    /\ NamesIdle
    /\ LLMIdle
    /\ ReactionsIdle
    /\ ManagerIdle
    /\ session = NoSession
    /\ prune = NoPrune
    /\ mention \in {[NoMention EXCEPT !.pc = "fetched", !.text = t, !.nameMap = nm] :
                        t \in MentionTexts, nm \in MentionNameMaps}

NextMentions ==
    \/ formatMessage
    \/ formatAgain

SpecMentions == InitMentions /\ [][NextMentions]_vars

\* the process after initializeAllBots: the clients log in, each becomes ready
\* at some time, and events of the ready ones are handled
InitManager ==
    /\ now = StartTime
    /\ HandlerIdle
    /\ CacheIdle
    /\ NamesIdle
    /\ LLMIdle
    /\ ReactionsIdle
    /\ ManagerIdle
    /\ TextIdle

NextManager ==
    \/ \E b \in ManagerBots : clientReady(b)
    \/ \E b \in ManagerBots : handleEventOf(b)

SpecManager == InitManager /\ [][NextManager]_vars

\* reactions on a message of this bot, and on messages of others
InitReactions ==
    /\ now = StartTime
    /\ HandlerIdle
    /\ CacheIdle
    /\ NamesIdle
    /\ LLMIdle
    /\ RestIdle

NextReactions ==
    \/ \E emoji \in ReactionEmojis, author \in {BotId, "alice"} :
          messageReactionAdd(emoji, author)
    \/ \E i \in 1..MaxReactions : handleReactionAdd(i)
    \/ \E i \in 1..MaxReactions : reactSettles(i)
    \/ \E i \in 1..MaxReactions : thumbsDown(i)
    \/ \E i \in 1..MaxReactions : messageDelete(i)
    \/ ephemeralFetchConversation
    \/ sendTyping
    \/ resolveUserMessage
    \/ getDisplayName
    \/ callLLM
    \/ deliver
    \/ fallback
    \/ settle

SpecReactions == InitReactions /\ [][NextReactions]_vars

\* one store into a name cache or a conversation cache that holds 999, 1000 or
\* 1001 entries, under an existing key or a new one
InitPrune ==
    /\ now = StartTime
    /\ HandlerIdle
    /\ CacheIdle
    /\ NamesIdle
    /\ LLMIdle
    /\ ReactionsIdle
    /\ ManagerIdle
    /\ session = NoSession
    /\ mention = NoMention
    /\ prune \in {[pc |-> "set", kind |-> kind,
                    before |-> filledCache(kind, n, StartTime, p),
                    key |-> key, t0 |-> StartTime, cache |-> <<>>] :
                        kind \in {"names", "conversation"}, n \in PruneFills,
                        p \in PrunePatterns, key \in {1, PruneThreshold + 2}}

NextPrune == cacheSet

SpecPrune == InitPrune /\ [][NextPrune]_vars

----------------------------------------------------------------------------
\* Properties of the loop guard (specification Spec)

\* shouldRespond has decided on msg
Handled == pc \notin {"idle", "received"}

Alternations ==
    {<<a, b, a, b, a>> : a \in OtherBots, b \in OtherBots} \
    {<<a, a, a, a, a>> : a \in OtherBots}

\* C1: when two other bots have posted A, B, A, B, A in a channel, starting from
\* no chain state and with every gap inside the idle window, the 5th message is
\* not responded to: shouldRespond returns false and no call is issued for it.
C1_FifthAlternationSuppressed ==
    (Handled /\ guarded(msg) /\ run[msg.channel.id] \in Alternations)
        => (respond = "false" /\ pc = "returned" /\ fx = {} /\ delivered = "none")

\* the 5th message of an alternation has been handled, some of it after a pause,
\* by a bot that answers every message and was mentioned
C1_Witness ==
    /\ Handled
    /\ guarded(msg)
    /\ run[msg.channel.id] = <<"botA", "botB", "botA", "botB", "botA">>
    /\ now > StartTime
    /\ botConfig.respondTo = "dynamic"
    /\ BotId \in msg.mentions.users

C3_LoopWithOneBotCapped == streak.n <= ChainThreshold

\* C4: a counted bot message arriving more than 600,000 ms after the last
\* recorded bot activity is evaluated from chainCount 0 and lastBotId "" (the
\* entry becomes {0, author, now} and the guard lets it pass); with a gap of
\* 600,000 ms or less chainCount and lastBotId are taken as they were: the count
\* grows by one exactly when the recorded lastBotId differs from the author.
C4_IdleReset ==
    [][(pc = "received" /\ pc' # "received" /\ guarded(msg)
        /\ msg.channel.id \in DOMAIN botToBotChains) =>
          LET c == msg.channel.id
              old == botToBotChains[c]
              new == botToBotChains'[c]
          IN  IF now - old.lastActivity > 600000
              THEN /\ new = [chainCount |-> 0, lastBotId |-> msg.author.id,
                             lastActivity |-> now]
                   /\ botConfig.respondTo = "dynamic" => respond' = "true"
              ELSE /\ new.chainCount =
                         old.chainCount + (IF old.lastBotId # msg.author.id THEN 1 ELSE 0)
                   /\ new.lastBotId = msg.author.id
                   /\ new.lastActivity = now]_vars

\* a bot message handled exactly 600,000 ms after the previous one, counted on
\* top of the chain that was there
C4_Witness ==
    /\ Handled
    /\ guarded(msg)
    /\ gap = 600000
    /\ botToBotChains[msg.channel.id].chainCount >= 2

\* C5: a message event authored by the bot itself is not responded to
\* (shouldRespond returns false, the handler returns with no call issued) and
\* botToBotChains stays as it was.
C5_OwnMessageIgnored ==
    [][(pc = "received" /\ pc' # "received" /\ msg.author.id = BotId) =>
          /\ botToBotChains' = botToBotChains
          /\ respond' = "false"
          /\ pc' = "returned"
          /\ fx' = {}
          /\ delivered' = "none"]_vars

\* an own message handled by a bot that answers everything, mentioned in it,
\* while the channel has a chain entry
C5_Witness ==
    /\ Handled
    /\ msg.author.id = BotId
    /\ isStandardType(msg)
    /\ botConfig.respondTo = "dynamic"
    /\ BotId \in msg.mentions.users
    /\ msg.channel.id \in DOMAIN botToBotChains
    /\ botToBotChains[msg.channel.id].chainCount >= 1

----------------------------------------------------------------------------
\* Properties of the response policy (specification SpecPolicy)

\* the message names someone or something, and not this bot
NamesOthersOnly ==
    /\ \/ msg.mentions.everyone
       \/ msg.mentions.users # {}
       \/ msg.mentions.roles # {}
       \/ msg.mentions.channels # {}
    /\ BotId \notin msg.mentions.users

\* the gates before the mention rule let msg through: a standard message, not
\* the bot's own, below the loop threshold, with the three permissions outside DMs
PassesEarlierGates ==
    /\ msg.type \in {"Default", "Reply"}
    /\ msg.author.id # BotId
    /\ msg.author.bot =>
          MapGet(botToBotChains, msg.channel.id, NewChain).chainCount < 3
    /\ msg.channel.kind # "DM" =>
          /\ msg.channel.hasPerms
          /\ {"ViewChannel", "SendMessages", "ReadMessageHistory"}
                \subseteq msg.channel.perms

\* text contains name, letter case ignored
ContainsIgnoringCase(text, name) ==
    \E i \in 0..(Len(text) - Len(name)) :
        \A j \in 1..Len(name) : Lower(text[i + j]) = Lower(name[j])

NoCallIssued == fx = {} /\ delivered = "none" /\ ~typingInterval

C7_ThreadMembersOnly ==
    /\ [](Handled /\ PassesEarlierGates /\ ~NamesOthersOnly
            /\ msg.channel.kind = "Thread"
          => (respond = "true" <=>
                /\ msg.channel.joined
                /\ ~msg.channel.locked
                /\ "SendMessagesInThreads" \in msg.channel.perms))
    /\ [][msg'.channel.kind = "Thread" => msg'.channel.joined = msg.channel.joined]_vars

\* a thread message that mentions nobody, answered by a mention-only bot
C7_Witness ==
    /\ Handled
    /\ msg.channel.kind = "Thread"
    /\ respond = "true"
    /\ botConfig.respondTo = "unset"
    /\ msg.mentions = NoMentions

\* C8: outside threads, a message that passes the earlier gates and the
\* mention rule is responded to if and only if respondTo is "dynamic", or the
\* channel is a DM, or the bot is mentioned, or respondTo is "name" and the text
\* contains the resolved display name, letter case ignored.
C8_RespondRule ==
    (Handled /\ PassesEarlierGates /\ ~NamesOthersOnly /\ msg.channel.kind # "Thread")
        => (respond = "true" <=>
              \/ botConfig.respondTo = "dynamic"
              \/ msg.channel.kind = "DM"
              \/ BotId \in msg.mentions.users
              \/ /\ botConfig.respondTo = "name"
                 /\ nameSeen.ok
                 /\ ContainsIgnoringCase(msg.content, nameSeen.name))

\* a guild message answered for the name alone, written in another letter case
C8_Witness ==
    /\ Handled
    /\ respond = "true"
    /\ msg.channel.kind = "GuildText"
    /\ botConfig.respondTo = "name"
    /\ msg.mentions = NoMentions
    /\ msg.content = <<"a", "B", "O">>
    /\ nameSeen.name = <<"B", "o">>

\* C9: outside DMs, when the bot lacks view-channel, send-messages or
\* read-message-history (or send-in-threads, in a thread), a message event is
\* not responded to and no call is issued for it.
C9_PermissionsRequired ==
    (/\ Handled
     /\ msg.channel.kind # "DM"
     /\ \/ ~msg.channel.hasPerms
        \/ ~({"ViewChannel", "SendMessages", "ReadMessageHistory"}
                \subseteq msg.channel.perms)
        \/ /\ msg.channel.kind = "Thread"
           /\ "SendMessagesInThreads" \notin msg.channel.perms)
        => (respond = "false" /\ pc = "returned" /\ NoCallIssued)

\* a guild message that mentions the bot, to a bot that answers everything,
\* in a channel where only read-message-history is missing
C9_Witness ==
    /\ Handled
    /\ msg.type = "Default"
    /\ msg.author.id = "alice"
    /\ msg.channel.kind = "GuildText"
    /\ msg.channel.perms = AllPerms \ {"ReadMessageHistory"}
    /\ botConfig.respondTo = "dynamic"
    /\ BotId \in msg.mentions.users

\* C10 as stated: for a message the bot responds to, the reply flag is true
\* exactly when the bot was mentioned, or respondAsReply is configured outside
\* DMs and threads, or the context is a DM or a thread.
C10_ReplyInDMAndThread ==
    (Handled /\ respond = "true")
        => (respondAsReply <=>
              \/ BotId \in msg.mentions.users
              \/ botConfig.respondAsReply /\ msg.channel.kind \notin {"DM", "Thread"}
              \/ msg.channel.kind \in {"DM", "Thread"})

\* C10 as amended: for a message the bot responds to, the reply flag is true
\* exactly when the bot was mentioned, or respondAsReply is configured and the
\* context is neither a DM nor a thread; the model reply goes out as a reply
\* when the flag is true and as a plain send when it is false.
C10_ReplyFlag ==
    (Handled /\ respond = "true")
        => /\ respondAsReply <=>
                \/ BotId \in msg.mentions.users
                \/ botConfig.respondAsReply /\ msg.channel.kind \notin {"DM", "Thread"}
           /\ delivered = "reply" => respondAsReply
           /\ delivered = "send" => ~respondAsReply
           /\ "reply" \in fx => respondAsReply
           /\ "send" \in fx => ~respondAsReply

\* a DM without a mention, answered with a plain send although respondAsReply is set
C10_Witness ==
    /\ Handled
    /\ respond = "true"
    /\ msg.channel.kind = "DM"
    /\ BotId \notin msg.mentions.users
    /\ botConfig.respondAsReply
    /\ delivered = "send"

----------------------------------------------------------------------------
\* Properties of the conversation cache (specification SpecCache)

\* C12 as stated: two conversation fetches of one channel issued less than
\* 5000 ms apart return the identical result and at most one of them fetched
\* upstream, however the two handlers interleave.
C12_TwoFetchesOneUpstream ==
    \A n1 \in 1..MaxEvents, n2 \in 1..MaxEvents :
        (/\ n1 < n2
         /\ calls[n1].pc = "sent"
         /\ calls[n2].pc = "sent"
         /\ calls[n1].channel = calls[n2].channel
         /\ calls[n2].t0 - calls[n1].t0 < 5000)
            => /\ calls[n1].conversation = calls[n2].conversation
               /\ ~(calls[n1].fetched /\ calls[n2].fetched)

\* C12 as amended: a fetch issued while the channel has an entry younger than
\* 5000 ms returns the messages of that entry, fetches nothing upstream and
\* leaves the cache as it is; a fetch issued when the channel has no entry, or
\* one that is 5000 ms old or older, fetches upstream; and a fetch that has
\* fetched upstream overwrites the entry of its channel with its own result,
\* stamped with the time it was issued.
C12_FreshEntryServed ==
    [][\A n \in 1..MaxEvents :
          /\ (calls[n].pc = "start" /\ calls'[n].pc # "start") =>
                LET c == calls[n].channel
                IN  IF c \in DOMAIN channelCache
                       /\ now - channelCache[c].lastFetchTime < 5000
                    THEN /\ calls'[n].conversation = channelCache[c].messages
                         /\ ~calls'[n].fetched
                         /\ calls'[n].pc # "fetching"
                         /\ channelCache' = channelCache
                    ELSE calls'[n].pc = "fetching"
          /\ (calls[n].pc = "storing" /\ calls'[n].pc # "storing") =>
                /\ calls'[n].fetched
                /\ calls'[n].conversation = calls[n].snapshot
                /\ channelCache'[calls[n].channel] =
                      [lastFetchTime |-> calls[n].t0, messages |-> calls[n].snapshot]]_vars

\* two handlers of one channel, the second issued while the first was still
\* waiting for the platform: both have fetched upstream
C12_Witness ==
    /\ calls[1].pc = "sent"
    /\ calls[2].pc = "sent"
    /\ calls[1].channel = calls[2].channel
    /\ calls[2].t0 - calls[1].t0 < 5000
    /\ calls[1].fetched
    /\ calls[2].fetched
    /\ storedBy[calls[1].channel] = 1

\* C13: the cache is keyed by the channel id alone: a fetch issued while the
\* last fetch stored for its channel is less than 5000 ms old returns what that
\* fetch stored, unchanged and with no upstream fetch, whichever limit,
\* triggering message and bot instance stored it.
C13_KeyedByChannelAlone ==
    [][\A n \in 1..MaxEvents :
          (calls[n].pc = "start" /\ calls'[n].pc # "start") =>
              LET m == storedBy[calls[n].channel]
              IN  IF m = 0
                  THEN TRUE
                  ELSE (now - calls[m].t0 < 5000) =>
                          /\ calls'[n].conversation = calls[m].snapshot
                          /\ ~calls'[n].fetched
                          /\ calls'[n].pc # "fetching"
                          /\ channelCache' = channelCache]_vars

\* a bot instance without history is served, for its own message, the entry
\* another bot instance fetched with limit 2 for an earlier message
C13_Witness ==
    /\ calls[2].pc = "sent"
    /\ ~calls[2].fetched
    /\ calls[2].from = 1
    /\ calls[1].bot # calls[2].bot
    /\ convLength[calls[1].bot] # convLength[calls[2].bot]
    /\ calls[2].conversation = calls[1].snapshot
    /\ calls[2].t0 > calls[1].t0

\* C15: with convLength 0 every posted request body consists of a message
\* member that is the text of the message that triggered the event.
C15_MessageIsTriggerText ==
    \A n \in 1..MaxEvents :
        (calls[n].pc = "sent" /\ convLength[calls[n].bot] = 0)
            => /\ calls[n].body.keys = {"message"}
               /\ calls[n].body.message = [of |-> "message", n |-> n]

----------------------------------------------------------------------------
\* Properties of the display-name cache (specification SpecNames)

\* C14: a name served from the cache is less than one hour old, and a lookup
\* that finds an entry of its key less than one hour old returns the name of
\* that entry, asks the platform nothing and leaves the cache as it is.
C14_FreshNamesOnly ==
    /\ [](\A i \in 1..MaxLookups : lookups[i].hit => lookups[i].age < 3600000)
    /\ [][\A i \in 1..MaxLookups :
            (lookups[i].pc = "none" /\ lookups'[i].pc # "none") =>
                LET key == nameCacheKey(lookups'[i].userId, lookups'[i].guildId)
                IN  (/\ key \in DOMAIN displayNameCache
                     /\ now - displayNameCache[key].lastFetchTime < 3600000)
                        => /\ lookups'[i].pc = "returned"
                           /\ lookups'[i].hit
                           /\ lookups'[i].result = displayNameCache[key].displayName
                           /\ displayNameCache' = displayNameCache]_vars

\* a second lookup of a key, half an hour after the first, returns the name
\* the first one cached although the member has been renamed since
C14_Witness ==
    /\ lookups[1].pc = "returned"
    /\ ~lookups[1].hit
    /\ lookups[2].hit
    /\ lookups[2].userId = lookups[1].userId
    /\ lookups[2].guildId = lookups[1].guildId
    /\ lookups[2].age = 1800000
    /\ lookups[2].result = lookups[1].result
    /\ memberNames[nameCacheKey(lookups[2].userId, lookups[2].guildId)]
          # lookups[2].result

----------------------------------------------------------------------------
\* Properties of the inference client (specification SpecLLM)

HttpDone == llm.pc = "done" /\ llm.response.kind = "http"

\* C16: when the endpoint answers 429, callLLM returns the rate_limited result
\* and throws nothing, whatever the body of the response is.
C16_RateLimitedNeverThrown ==
    (HttpDone /\ llm.response.status = 429)
        => llm.result = [type |-> "rate_limited", reply |-> NoOptions, message |-> ""]

\* a 429 whose body carries an error message
C16_Witness ==
    /\ HttpDone
    /\ llm.response.status = 429
    /\ "error" \in llm.response.data.has
    /\ llm.response.data.error = "quota exceeded"
    /\ llm.result.type = "rate_limited"

\* C17: a body {success: false, error: X} makes callLLM throw an error whose
\* message is X, with status 200 as with any other status but 429; the generic
\* failure message appears only when the body carries no error message.
C17_UpstreamErrorCarried ==
    (/\ HttpDone
     /\ llm.response.status # 429
     /\ llm.response.data.json = "object"
     /\ {"success", "error"} \subseteq llm.response.data.has
     /\ ~llm.response.data.success)
        => /\ llm.result.type = "throw"
           /\ llm.result.message = llm.response.data.error

C19_EmptyConversationThrows ==
    Len(llm.conversation) = 0
        => /\ llm.pc # "awaiting"
           /\ llm.posts = 0
           /\ llm.body = NoBody
           /\ llm.pc = "done" => llm.result.type = "throw"

\* the call with an empty conversation has thrown, for a bot that sends the
\* conversation array
C19_Witness ==
    /\ llm.pc = "done"
    /\ Len(llm.conversation) = 0
    /\ llm.convLength = 2
    /\ llm.result.type = "throw"
    /\ llm.posts = 0

----------------------------------------------------------------------------
\* Properties of the orchestrator (specification SpecPolicy)

\* C20: when the handler of an event has finished, by returning or by
\* throwing, the typing timer it started is no longer live.
C20_TimerCancelledOnExit == Finished => ~typingInterval

\* the calls that tried to post the model reply, and those that tried the apology
ReplyPosts == {k \in DOMAIN outbox : outbox[k].text = ModelReply}
ApologyPosts == {k \in DOMAIN outbox : outbox[k].text = Apology}

\* C21: once callLLM has answered rate_limited for an event, the handler has
\* returned without posting anything (no reply, no send, no apology), and
\* from then on it calls neither the endpoint nor the channel again.
C21_RateLimitedDropped ==
    /\ [](aiResult = "rate_limited"
            => /\ pc = "returned"
               /\ outbox = <<>>
               /\ delivered = "none"
               /\ fx \cap {"reply", "send", "fallback"} = {})
    /\ [][aiResult = "rate_limited" => fx' = fx /\ outbox' = outbox]_vars

\* the endpoint was called for the event and answered 429
C21_Witness ==
    /\ aiResult = "rate_limited"
    /\ fx = {"context", "typing", "infer"}
    /\ pc = "returned"

\* C22: when callLLM has thrown for a message event, the handler ends by
\* returning, not by throwing, and it has tried to post the apology.
C22_InferenceErrorCaught ==
    aiResult = "throw" => pc = "returned" /\ ApologyPosts # {}

\* C23: when posting the model reply has failed and the handler has ended,
\* the apology was tried exactly once and the handler ended by returning, also
\* when the apology failed too.
C23_FallbackFailureSwallowed ==
    (Finished /\ \E k \in ReplyPosts : ~outbox[k].ok)
        => Cardinality(ApologyPosts) = 1 /\ pc = "returned"

\* C29: once callLLM has succeeded and the delivery has been tried, the model
\* reply was posted by exactly one call: userMessage.reply on the resolved user
\* message when respondAsReply is true, channel.send otherwise; never by both,
\* never twice, and it counts as delivered exactly when that call succeeded.
C29_DeliveredOnce ==
    (aiResult = "success" /\ pc # "deliver")
        => /\ Cardinality(ReplyPosts) = 1
           /\ \A k \in ReplyPosts :
                 /\ outbox[k].call = IF respondAsReply THEN "reply" ELSE "send"
                 /\ outbox[k].to = IF respondAsReply THEN userMessage.id ELSE ""
                 /\ delivered = IF outbox[k].ok THEN outbox[k].call ELSE "none"

\* a reply delivered by a plain send, and nothing else posted
C29_Witness ==
    /\ aiResult = "success"
    /\ pc = "returned"
    /\ ~respondAsReply
    /\ delivered = "send"
    /\ Len(outbox) = 1
    /\ outbox[1].call = "send"

----------------------------------------------------------------------------
\* Properties of the session id (specification SpecSession)

\* C24: the session id of an event, decoded, gives back the bot's id, the id
\* of the author of the resolved user message, and the channel id, which is
\* the parent's id when the channel is a thread and the channel's own id
\* otherwise.
C24_SessionIdDecodes ==
    session.pc = "decoded"
        => /\ session.decoded[KeyBotId] = session.botId
           /\ session.decoded[KeyUserId] = session.userMessage.author.id
           /\ session.decoded[KeyChannelId] =
                 IF session.channel.kind = "Thread"
                 THEN session.channel.parentId
                 ELSE session.channel.id

\* the session id of an event in a thread, read back: the parent's id
C24_Witness ==
    /\ session.pc = "decoded"
    /\ session.channel.kind = "Thread"
    /\ session.decoded[KeyChannelId] = <<"2", "1">>
    /\ session.decoded[KeyChannelId] # session.channel.id
    /\ session.decoded[KeyUserId] = <<"3", "4">>
    /\ Len(session.sessionId) % 4 = 0

----------------------------------------------------------------------------
\* Properties of the mention substitution (specification SpecMentions)

\* the mention tokens of a text whose id has no entry in the name map
unresolved(text, nameMap) ==
    SelectSeq(mentionsFrom(text, 1), LAMBDA t : t.id \notin DOMAIN nameMap)

\* C28: after the substitution no mention token of a user of the name map is
\* left, the mention tokens that are left are those of the unresolved ids,
\* each exactly as it was written in the input and in the same order, and a
\* second application of the substitution changes nothing.
C28_SubstitutionTotalIdempotent ==
    mention.pc = "done"
        => /\ \A k \in DOMAIN mentionsFrom(mention.out, 1) :
                 mentionsFrom(mention.out, 1)[k].id \notin DOMAIN mention.nameMap
           /\ [k \in DOMAIN mentionsFrom(mention.out, 1) |->
                    mentionsFrom(mention.out, 1)[k].raw]
              = [k \in DOMAIN unresolved(mention.text, mention.nameMap) |->
                    unresolved(mention.text, mention.nameMap)[k].raw]
           /\ mention.again = mention.out

----------------------------------------------------------------------------
\* Properties of the bot instances (specification SpecManager)

\* C27: whatever client the handling of an event of bot X reads, it is the
\* client of X: message.client and the client getDisplayName works with.
C27_OwnClientOnly ==
    \A k \in DOMAIN reads :
        /\ reads[k].messageClient = reads[k].bot
        /\ reads[k].getBotClient = reads[k].bot

----------------------------------------------------------------------------
\* Properties of the reaction handler (specification SpecReactions)

\* C25: the bot has at most one reaction of its own on its message, however
\* the thumbs-up events on that message are interleaved.
C25_AtMostOneOwnReaction == Cardinality(reacted) <= 1

\* the thumbs-down handler i has just gone past its awaited run
PastRun(i) ==
    reactions[i].pc = "processConversation" /\ reactions'[i].pc = "returned"

\* C26: while a thumbs-down on the bot's message is being handled, the run in
\* progress is the orchestration of that message with respondAsReply true; the
\* delete of that message is issued only by a step at which the run has
\* finished by returning, and every run that returns is followed by the delete.
C26_DeleteAfterRun ==
    /\ [](\A i \in DOMAIN reactions :
            reactions[i].pc = "processConversation"
                => /\ msg = BotMessage
                   /\ respondAsReply
                   /\ \A k \in DOMAIN outbox : outbox[k].text = ModelReply
                          => outbox[k].call = "reply")
    /\ [][(deleted' /\ ~deleted)
             => pc = "returned" /\ \E i \in DOMAIN reactions : PastRun(i)]_vars
    /\ [][\A i \in DOMAIN reactions : (PastRun(i) /\ pc = "returned") => deleted']_vars

\* the regenerated answer was posted as a reply and the old message deleted
C26_Witness ==
    /\ deleted
    /\ msg = BotMessage
    /\ pc = "returned"
    /\ delivered = "reply"
    /\ aiResult = "success"
    /\ \E i \in DOMAIN reactions :
          reactions[i].emoji = ThumbsDown /\ reactions[i].pc = "returned"

\* C30: for a trigger written by this bot, once the user message has been
\* looked for: it is the referenced message when the reference resolves (from
\* the cache or by a fetch), else the message before the trigger when there is
\* one, and else the run has returned with no inference call and nothing
\* posted. Every reply of the run goes to that user message.
C30_RegenUserMessage ==
    (msg.author.id = BotId /\ userMessage.resolved)
        => /\ userMessage.reference \in {"cached", "fetched"}
                 => userMessage.id = "referenced"
           /\ (userMessage.reference \in {"none", "missing"}
                    /\ userMessage.preceding = "found")
                 => userMessage.id = "preceding"
           /\ (userMessage.reference \in {"none", "missing"}
                    /\ userMessage.preceding \in {"none", "error"})
                 => /\ userMessage.id = ""
                    /\ pc = "returned"
                    /\ "infer" \notin fx
                    /\ aiResult = "none"
                    /\ outbox = <<>>
           /\ \A k \in DOMAIN outbox : outbox[k].to = userMessage.id

\* a regeneration whose trigger has a reference that cannot be fetched and
\* whose channel has no earlier message: the run returned after the typing call
C30_Witness ==
    /\ msg.author.id = BotId
    /\ userMessage.resolved
    /\ userMessage.reference = "missing"
    /\ userMessage.preceding = "none"
    /\ pc = "returned"
    /\ fx = {"context", "typing"}

----------------------------------------------------------------------------
\* Properties of the pruning (specification SpecPrune)

\* the keys of the map right after the store, and the lastFetchTime of each
StoredKeys == DOMAIN prune.before \cup {prune.key}
StoredTime(k) == IF k = prune.key THEN prune.t0 ELSE prune.before[k].lastFetchTime

\* C31: after a store that leaves the map with more than 1000 entries, every
\* entry whose lastFetchTime is older than now minus the cache duration is gone,
\* every younger entry is kept, the one just written among them; after a store
\* that leaves it with 1000 entries or fewer nothing is removed. now is the
\* time the storing call read when it started.
C31_PruneAboveThreshold ==
    prune.pc = "stored"
        => LET expiry == prune.t0 - durationOf(prune.kind)
           IN  /\ IF Cardinality(StoredKeys) > 1000
                  THEN /\ \A k \in StoredKeys :
                            StoredTime(k) < expiry => k \notin DOMAIN prune.cache
                       /\ \A k \in StoredKeys :
                            StoredTime(k) > expiry => k \in DOMAIN prune.cache
                       /\ prune.key \in DOMAIN prune.cache
                  ELSE DOMAIN prune.cache = StoredKeys
               /\ \A k \in DOMAIN prune.cache :
                     prune.cache[k].lastFetchTime = StoredTime(k)

\* a store that made the conversation cache 1001 entries large: some were
\* removed, the younger ones and the new one are there
C31_Witness ==
    /\ prune.pc = "stored"
    /\ prune.kind = "conversation"
    /\ Cardinality(StoredKeys) = 1001
    /\ prune.key \notin DOMAIN prune.before
    /\ Cardinality(DOMAIN prune.cache) < 1001
    /\ Cardinality(DOMAIN prune.cache) > 1
    /\ prune.key \in DOMAIN prune.cache

----------------------------------------------------------------------------
\* Properties of the name fallback (specification SpecNames)

\* C32: a lookup makes the fallback fetch of the user at most once; a lookup
\* that failed and whose fallback fetch succeeded returns the name of the bare
\* user lookup and leaves the cache alone; getDisplayName throws only when the
\* fallback fetch has failed too.
C32_NameFallback ==
    /\ [](\A i \in DOMAIN lookups :
            /\ lookups[i].fallbacks <= 1
            /\ lookups[i].pc = "rejected" => lookups[i].fallbacks = 1
            /\ lookups[i].fallbacks = 1 => lookups[i].pc \in {"returned", "rejected"})
    /\ [][\A i \in DOMAIN lookups :
            (lookups[i].pc = "fetching" /\ lookups'[i].pc = "returned"
             /\ lookups'[i].fallbacks = 1)
                => /\ lookups'[i].result =
                         memberNames[nameCacheKey(lookups[i].userId, "")]
                   /\ displayNameCache' = displayNameCache]_vars

\* a lookup in a guild that failed and came back with the global name, which
\* is not the name the member has in the guild
C32_Witness ==
    \E i \in DOMAIN lookups :
        /\ lookups[i].pc = "returned"
        /\ lookups[i].fallbacks = 1
        /\ lookups[i].guildId = "g1"
        /\ lookups[i].result # memberNames[nameCacheKey(lookups[i].userId, "g1")]
        /\ lookups[i].result = memberNames[nameCacheKey(lookups[i].userId, "")]

----------------------------------------------------------------------------
\* Properties of the request headers (specification SpecLLM)

\* C33: a request that was posted has an Authorization header exactly when an
\* apiKey is configured, then with the value "Bearer <apiKey>", and has the
\* session header exactly when a sessionHeaderName is configured, then with the
\* session id as its value.
C33_HeadersWhenConfigured ==
    llm.posts > 0 =>
        /\ "Authorization" \in DOMAIN llm.headers <=> llm.apiKey # {}
        /\ \A key \in llm.apiKey : llm.headers["Authorization"] = <<"Bearer ", key>>
        /\ truthy(llm.sessionHeaderName)
              => \A name \in llm.sessionHeaderName : llm.headers[name] = <<LLMSessionId>>
        /\ llm.sessionHeaderName = {}
              => DOMAIN llm.headers \subseteq {"Authorization", "Content-Type"}

----------------------------------------------------------------------------
\* Properties of two session ids (specification SpecSession)

\* C34: two events of the same bot with the same resolved user in the same
\* channel, at two moments of the process's life, have the same session id.
C34_SessionIdDeterministic ==
    (session.pc \in {"callLLM", "decoded"} /\ session.earlier # <<>>)
        => session.sessionId = session.earlier

----------------------------------------------------------------------------
\* Further properties of the loop guard (specification Spec)

\* the chain of channel c as the guard takes it up at time t: the default when
\* there is no entry, count and last bot cleared after the idle time
recorded(c, t) ==
    LET chain == MapGet(botToBotChains, c, NewChain)
    IN  IF t - chain.lastActivity > 600000
        THEN [chain EXCEPT !.chainCount = 0, !.lastBotId = ""]
        ELSE chain

\* C35: handling a message of another bot raises the chainCount of the channel
\* by exactly one when the recorded lastBotId is non-empty and is not the
\* author, and leaves it as it is otherwise (first message after creation or
\* idle reset, or the same bot again); every other bot-authored message leaves
\* the chains alone; and while all counted messages of a channel since the last
\* fresh start are of one bot, the count stays 0, under the threshold of 3.
C35_CountsAuthorChanges ==
    /\ [][(pc = "received" /\ pc' # "received" /\ msg.author.bot) =>
            IF guarded(msg)
            THEN LET c == msg.channel.id
                     old == recorded(c, now)
                 IN  botToBotChains'[c].chainCount =
                        IF old.lastBotId # "" /\ old.lastBotId # msg.author.id
                        THEN old.chainCount + 1
                        ELSE old.chainCount
            ELSE botToBotChains' = botToBotChains]_vars
    /\ [](\A c \in DOMAIN botToBotChains :
            (\A i, j \in DOMAIN run[c] : run[c][i] = run[c][j])
                => /\ botToBotChains[c].chainCount = 0
                   /\ ~loopSuppressed(botToBotChains[c]))

\* one other bot has posted five times in a row inside the idle window: the
\* count is still 0 and the fifth message is answered
C35_Witness ==
    /\ Handled
    /\ guarded(msg)
    /\ run[msg.channel.id] = <<"botA", "botA", "botA", "botA", "botA">>
    /\ botToBotChains[msg.channel.id].chainCount = 0
    /\ botToBotChains[msg.channel.id].lastBotId = "botA"
    /\ respond = "true"

\* what the rules other than the loop guard decide for a message: the type
\* test, the permission test and the response policy
withoutGuard(message, config, lookup) ==
    IF ~isStandardType(message) \/ permissionDenied(message)
    THEN [result |-> "false", nameSeen |-> NotCalled]
    ELSE LET p == policy(message, config, lookup)
         IN  [result |-> p.result, nameSeen |-> p.nameSeen]

\* C36: a message of a non-bot author is never stopped by the loop guard:
\* whatever the chain of its channel is, shouldRespond gives what the other
\* rules give for it, and the chains stay as they were.
C36_HumanNeverGuarded ==
    [][(pc = "received" /\ pc' # "received" /\ ~msg.author.bot) =>
          /\ botToBotChains' = botToBotChains
          /\ \E lookup \in Lookups :
                LET r == withoutGuard(msg, botConfig, lookup)
                IN  respond' = r.result /\ nameSeen' = r.nameSeen]_vars

\* a human message answered in a channel whose chain is at the threshold and
\* inside the idle window
C36_Witness ==
    /\ Handled
    /\ ~msg.author.bot
    /\ isStandardType(msg)
    /\ respond = "true"
    /\ msg.channel.id \in DOMAIN botToBotChains
    /\ botToBotChains[msg.channel.id].chainCount >= ChainThreshold
    /\ now - botToBotChains[msg.channel.id].lastActivity <= IdleMs

----------------------------------------------------------------------------
\* Properties of interleaved fetches (specification SpecCache)

\* C37 as stated: under any interleaving of handlers, the lastFetchTime stored
\* for a channel never decreases.
C37_FetchTimeNeverDecreases ==
    [][\A k \in DOMAIN channelCache :
          k \in DOMAIN channelCache'
              => channelCache'[k].lastFetchTime >= channelCache[k].lastFetchTime]_vars

\* C37 as amended: the cache is last-write-wins. A handler that stores leaves
\* for its channel exactly its own result, stamped with the time its own call
\* started, whatever entry was there; the stored time is never later than now,
\* and it decreases only when the storing call started before the one whose
\* entry it replaces.
C37_LastWriteWins ==
    /\ [](\A k \in DOMAIN channelCache : channelCache[k].lastFetchTime <= now)
    /\ [][\A n \in 1..MaxEvents :
            (calls[n].pc = "storing" /\ calls'[n].pc # "storing") =>
                LET k == calls[n].channel
                IN  /\ channelCache'[k] = [lastFetchTime |-> calls[n].t0,
                                           messages |-> calls[n].snapshot]
                    /\ \A j \in DOMAIN channelCache \ {k} :
                          channelCache'[j] = channelCache[j]]_vars

\* two handlers of one channel have both missed and both stored; the entry is
\* that of the one that started first and stored last, with the earlier time
C37_Witness ==
    \E n, m \in 1..MaxEvents :
        /\ calls[n].channel = calls[m].channel
        /\ calls[n].fetched /\ calls[m].fetched
        /\ calls[n].t0 < calls[m].t0
        /\ storedBy[calls[n].channel] = n
        /\ channelCache[calls[n].channel].lastFetchTime = calls[n].t0
        /\ channelCache[calls[n].channel].messages = calls[n].snapshot

\* C38: the conversation of every request posted for a triggering message of
\* another author ends with that triggering message, also when the
\* conversation comes from the cache.
C38_TriggerIsLast ==
    \A n \in 1..MaxEvents :
        (calls[n].pc = "sent" /\ ~calls[n].regenerate) =>
            /\ Len(calls[n].conversation) > 0
            /\ calls[n].conversation[Len(calls[n].conversation)]
                  = [username |-> UserMessage(n, calls[n].channel).author.id,
                     text |-> UserMessage(n, calls[n].channel).content]

\* C39: callLLM is never called with an empty conversation, for a message
\* event and for a thumbs-down regeneration, whatever the convLength.
C39_NeverEmptyConversation ==
    \A n \in 1..MaxEvents :
        calls[n].callLLM => Len(calls[n].conversation) > 0

----------------------------------------------------------------------------
\* Properties of the regeneration (specification SpecReactions)

\* C40: the message with the thumbs-down is deleted only by a step at which the
\* run has delivered a regenerated reply: not after a rate-limited result, not
\* after an unresolved user message, not after an error.
C40_DeleteOnlyAfterDelivery ==
    [][(deleted' /\ ~deleted)
          => /\ aiResult = "success"
             /\ delivered = "reply"
             /\ \E k \in DOMAIN outbox :
                   outbox[k].text = ModelReply /\ outbox[k].ok]_vars

====
